---- MODULE Spec2Model ----
(***************************************************************************)
(* A model of mate-panel's "Action Button" module (panel-action-button.c)  *)
(* as a state machine: the static action table, the lockdown/enablement    *)
(* hooks, the life cycle of one button widget (load, re-bind, click,       *)
(* notifications, finalize), the drag-token encode/decode path, what the    *)
(* invoke hooks of the table do, and the icon-size registration of         *)
(* panel-stock-icons.c.                                                    *)
(***************************************************************************)
EXTENDS Integers, Sequences, FiniteSets, TLC

VARIABLES
    env,            \* lockdown policy flags and facts about the session/display
    button,         \* the PanelActionButton instance (priv fields + widget state)
    op,             \* the last handler that ran, with its arguments
    trace,          \* the calls to collaborators the last handler made, in order
    query,          \* the last direct panel_action_get_is_disabled() call
    drag,           \* the drag in progress: its selection data and where it came from
    profile,        \* the settings store and the profile's object id list
    drop,           \* the outcome of the last panel_action_button_load_from_drag
    host,           \* what an invoke hook finds on the machine it runs on
    invoked,        \* the last invoke hook that ran, with what it was handed
    panel_menu_icon_size,       \* the statics of panel-stock-icons.c
    panel_menu_bar_icon_size,
    panel_add_to_icon_size,
    icon_sizes,     \* the icon sizes registered with GTK, a token being an index
    menubar_settings    \* the menu bar schema's item-icon-size and icon-size keys

stock_vars == <<panel_menu_icon_size, panel_menu_bar_icon_size, panel_add_to_icon_size,
                icon_sizes, menubar_settings>>

invoke_vars == <<host, invoked>>

vars == <<env, button, op, trace, query, drag, profile, drop, invoke_vars, stock_vars>>

NULL == "NULL"

-----------------------------------------------------------------------------
(* Bounds of the model *)

\* applet indices 0..MaxIdx are encoded into drag tokens (two-digit numbers included)
MaxIdx == 11
\* objects a behaviour adds to the profile
MaxObjects == 1
\* shutdown dialogs open at a time
MaxDialogs == 1
\* the panel positions a drop lands on
Positions == {0, 5}

-----------------------------------------------------------------------------
(* PanelActionButtonType, in the order of the panel_action_type table *)

PANEL_ACTION_NONE == 0
PANEL_ACTION_LOCK == 1
PANEL_ACTION_LOGOUT == 2
PANEL_ACTION_RUN == 3
PANEL_ACTION_SEARCH == 4
PANEL_ACTION_FORCE_QUIT == 5
PANEL_ACTION_CONNECT_SERVER == 6
PANEL_ACTION_SHUTDOWN == 7
PANEL_ACTION_LAST == 8

\* every value a caller, a GValue or a settings key can hand over: the enum's
\* values, and one value on each side of its range
TypeValues == (PANEL_ACTION_NONE - 1) .. PANEL_ACTION_LAST

ValidTypes == { t \in TypeValues : t > PANEL_ACTION_NONE /\ t < PANEL_ACTION_LAST }

\* what g_settings_get_enum reads from an object's action-type key: a value of
\* the schema's enum, which may know one kind more than the table does
StoredValues == PANEL_ACTION_NONE .. PANEL_ACTION_LAST

\* C strings that the code takes apart are tuples of characters
panel_action_type ==
    [ t \in PANEL_ACTION_NONE .. (PANEL_ACTION_LAST - 1) |->
        CASE t = PANEL_ACTION_NONE           -> <<"n","o","n","e">>
          [] t = PANEL_ACTION_LOCK           -> <<"l","o","c","k">>
          [] t = PANEL_ACTION_LOGOUT         -> <<"l","o","g","o","u","t">>
          [] t = PANEL_ACTION_RUN            -> <<"r","u","n">>
          [] t = PANEL_ACTION_SEARCH         -> <<"s","e","a","r","c","h">>
          [] t = PANEL_ACTION_FORCE_QUIT     -> <<"f","o","r","c","e","-","q","u","i","t">>
          [] t = PANEL_ACTION_CONNECT_SERVER ->
                 <<"c","o","n","n","e","c","t","-","s","e","r","v","e","r">>
          [] t = PANEL_ACTION_SHUTDOWN       -> <<"s","h","u","t","d","o","w","n">> ]

-----------------------------------------------------------------------------
(* The static action table *)

actions ==
    [ t \in PANEL_ACTION_NONE .. (PANEL_ACTION_LAST - 1) |->
        CASE t = PANEL_ACTION_NONE ->
               [ icon_name |-> NULL, text |-> NULL, tooltip |-> NULL,
                 help_index |-> NULL, drag_id |-> <<>>,
                 invoke |-> NULL, setup_menu |-> NULL, invoke_menu |-> NULL,
                 is_disabled |-> NULL ]
          [] t = PANEL_ACTION_LOCK ->
               [ icon_name |-> "PANEL_ICON_LOCKSCREEN",
                 text |-> "Lock Screen",
                 tooltip |-> "Protect your computer from unauthorized use",
                 help_index |-> "gospanel-21",
                 drag_id |-> <<"A","C","T","I","O","N",":","l","o","c","k",":","N","E","W">>,
                 invoke |-> "panel_action_lock_screen",
                 setup_menu |-> "panel_action_lock_setup_menu",
                 invoke_menu |-> "panel_action_lock_invoke_menu",
                 is_disabled |-> "panel_action_lock_is_disabled" ]
          [] t = PANEL_ACTION_LOGOUT ->
               [ icon_name |-> "PANEL_ICON_LOGOUT",
                 text |-> "Log Out...",
                 tooltip |-> "Log out of this session to log in as a different user",
                 help_index |-> "gospanel-20",
                 drag_id |-> <<"A","C","T","I","O","N",":","l","o","g","o","u","t",":",
                               "N","E","W">>,
                 invoke |-> "panel_action_logout",
                 setup_menu |-> NULL, invoke_menu |-> NULL,
                 is_disabled |-> "panel_lockdown_get_disable_log_out" ]
          [] t = PANEL_ACTION_RUN ->
               [ icon_name |-> "PANEL_ICON_RUN",
                 text |-> "Run Application...",
                 tooltip |-> "Run an application by typing a command or choosing from a list",
                 help_index |-> "gospanel-555",
                 drag_id |-> <<"A","C","T","I","O","N",":","r","u","n",":","N","E","W">>,
                 invoke |-> "panel_action_run_program",
                 setup_menu |-> NULL, invoke_menu |-> NULL,
                 is_disabled |-> "panel_lockdown_get_disable_command_line" ]
          [] t = PANEL_ACTION_SEARCH ->
               [ icon_name |-> "PANEL_ICON_SEARCHTOOL",
                 text |-> "Search for Files...",
                 tooltip |-> "Locate documents and folders on this computer by name or content",
                 help_index |-> "gospanel-554",
                 drag_id |-> <<"A","C","T","I","O","N",":","s","e","a","r","c","h",":",
                               "N","E","W">>,
                 invoke |-> "panel_action_search",
                 setup_menu |-> NULL, invoke_menu |-> NULL,
                 is_disabled |-> NULL ]
          [] t = PANEL_ACTION_FORCE_QUIT ->
               [ icon_name |-> "PANEL_ICON_FORCE_QUIT",
                 text |-> "Force Quit",
                 tooltip |-> "Force a misbehaving application to quit",
                 help_index |-> "gospanel-563",
                 drag_id |-> <<"A","C","T","I","O","N",":","f","o","r","c","e","-",
                               "q","u","i","t",":","N","E","W">>,
                 invoke |-> "panel_action_force_quit",
                 setup_menu |-> NULL, invoke_menu |-> NULL,
                 is_disabled |-> "panel_lockdown_get_disable_force_quit" ]
          [] t = PANEL_ACTION_CONNECT_SERVER ->
               [ icon_name |-> "PANEL_ICON_REMOTE",
                 text |-> "Connect to Server...",
                 tooltip |-> "Connect to a remote computer or shared disk",
                 help_index |-> "caja-server-connect",
                 drag_id |-> <<"A","C","T","I","O","N",":","c","o","n","n","e","c","t","-",
                               "s","e","r","v","e","r",":","N","E","W">>,
                 invoke |-> "panel_action_connect_server",
                 setup_menu |-> NULL, invoke_menu |-> NULL,
                 is_disabled |-> NULL ]
          [] t = PANEL_ACTION_SHUTDOWN ->
               [ icon_name |-> "PANEL_ICON_SHUTDOWN",
                 text |-> "Shut Down...",
                 tooltip |-> "Shut down the computer",
                 help_index |-> "gospanel-20",
                 drag_id |-> <<"A","C","T","I","O","N",":","s","h","u","t","d","o","w","n",
                               ":","N","E","W">>,
                 invoke |-> "panel_action_shutdown",
                 setup_menu |-> NULL, invoke_menu |-> NULL,
                 is_disabled |-> "panel_action_shutdown_reboot_is_disabled" ] ]

-----------------------------------------------------------------------------
(* The environment the enablement hooks read.                              *)
(*   disable_*          the panel_lockdown_get_disable_*() answers         *)
(*   lock_available     panel_lock_screen_action_available ("lock")        *)
(*   wayland_display    the build has HAVE_WAYLAND and the default display *)
(*                      is a GDK_IS_WAYLAND_DISPLAY (the code reads the    *)
(*                      display only inside #ifdef HAVE_WAYLAND)           *)
(*   shutdown_available panel_session_manager_is_shutdown_available ()     *)

Env ==
    [ disable_lock_screen : BOOLEAN, disable_log_out : BOOLEAN,
      disable_command_line : BOOLEAN, disable_force_quit : BOOLEAN,
      lock_available : BOOLEAN, wayland_display : BOOLEAN,
      shutdown_available : BOOLEAN ]

\* screensaver_enabled without the lockdown test
screensaver_enabled_ignoring_lockdown(e) == e.lock_available

screensaver_enabled(e) ==
    IF e.disable_lock_screen THEN FALSE ELSE e.lock_available

panel_action_lock_is_disabled(e) == ~ screensaver_enabled(e)

panel_lockdown_get_disable_log_out(e) == e.disable_log_out

panel_lockdown_get_disable_command_line(e) == e.disable_command_line

panel_lockdown_get_disable_force_quit(e) == e.disable_force_quit

\* the shutdown hook without its first test, the lockdown of log-out
panel_action_shutdown_reboot_is_disabled_no_lockdown(e) ==
    IF e.wayland_display THEN FALSE ELSE ~ e.shutdown_available

panel_action_shutdown_reboot_is_disabled(e) ==
    IF panel_lockdown_get_disable_log_out(e) THEN TRUE
    ELSE IF ~ panel_lockdown_get_disable_log_out(e) /\ e.wayland_display THEN FALSE
    ELSE ~ e.shutdown_available

\* the call through the table's is_disabled function pointer
call_is_disabled(hook, e) ==
    CASE hook = "panel_action_lock_is_disabled" -> panel_action_lock_is_disabled(e)
      [] hook = "panel_lockdown_get_disable_log_out" ->
             panel_lockdown_get_disable_log_out(e)
      [] hook = "panel_lockdown_get_disable_command_line" ->
             panel_lockdown_get_disable_command_line(e)
      [] hook = "panel_lockdown_get_disable_force_quit" ->
             panel_lockdown_get_disable_force_quit(e)
      [] hook = "panel_action_shutdown_reboot_is_disabled" ->
             panel_action_shutdown_reboot_is_disabled(e)

panel_action_get_is_disabled(type, e) ==
    IF ~ (type > PANEL_ACTION_NONE /\ type < PANEL_ACTION_LAST) THEN FALSE
    ELSE IF actions[type].is_disabled # NULL
         THEN call_is_disabled(actions[type].is_disabled, e)
    ELSE FALSE

-----------------------------------------------------------------------------
(* C strings and the library functions the drag path runs them through *)

Digits == <<"0","1","2","3","4","5","6","7","8","9">>

UpperCase == <<"A","B","C","D","E","F","G","H","I","J","K","L","M","N","O","P","Q","R","S","T","U","V","W","X","Y","Z">>

LowerCase == <<"a","b","c","d","e","f","g","h","i","j","k","l","m","n","o","p","q","r","s","t","u","v","w","x","y","z">>

IsDigit(c) == \E d \in 1 .. 10 : Digits[d] = c

DigitValue(c) == (CHOOSE d \in 1 .. 10 : Digits[d] = c) - 1

RECURSIVE FormatUnsigned(_)
FormatUnsigned(n) ==
    IF n < 10 THEN << Digits[n + 1] >>
    ELSE FormatUnsigned(n \div 10) \o << Digits[(n % 10) + 1] >>

\* printf's %d
FormatD(n) == IF n < 0 THEN <<"-">> \o FormatUnsigned(-n) ELSE FormatUnsigned(n)

g_ascii_tolower(c) ==
    IF \E i \in 1 .. 26 : UpperCase[i] = c
    THEN LowerCase[CHOOSE i \in 1 .. 26 : UpperCase[i] = c]
    ELSE c

\* g_ascii_strcasecmp (a, b) == 0
g_ascii_strcasecmp_equal(a, b) ==
    /\ Len(a) = Len(b)
    /\ \A i \in 1 .. Len(a) : g_ascii_tolower(a[i]) = g_ascii_tolower(b[i])

\* strncmp (s, prefix, strlen (prefix)) == 0
strncmp_equal(str, prefix) ==
    /\ Len(str) >= Len(prefix)
    /\ SubSeq(str, 1, Len(prefix)) = prefix

RECURSIVE SplitAtColons(_)
SplitAtColons(str) ==
    IF \E i \in 1 .. Len(str) : str[i] = ":"
    THEN LET i == CHOOSE j \in 1 .. Len(str) :
                      str[j] = ":" /\ \A k \in 1 .. (j - 1) : str[k] # ":"
         IN  << SubSeq(str, 1, i - 1) >> \o SplitAtColons(SubSeq(str, i + 1, Len(str)))
    ELSE << str >>

\* g_strsplit (str, ":", 0): the empty string gives the empty vector
g_strsplit(str) == IF str = << >> THEN << >> ELSE SplitAtColons(str)

RECURSIVE ParseDigits(_, _)
ParseDigits(str, acc) ==
    IF str = << >> \/ ~ IsDigit(Head(str)) THEN acc
    ELSE ParseDigits(Tail(str), acc * 10 + DigitValue(Head(str)))

RECURSIVE SkipSpaces(_)
SkipSpaces(str) ==
    IF str # << >> /\ Head(str) = " " THEN SkipSpaces(Tail(str)) ELSE str

\* a strtol that answers -1 when it finds no digits
strtol_no_digits_is_minus_one(str) ==
    LET s1 == SkipSpaces(str)
        s2 == IF s1 # << >> /\ Head(s1) \in {"+", "-"} THEN Tail(s1) ELSE s1
        v  == ParseDigits(s2, 0)
    IN  IF s2 = << >> \/ ~ IsDigit(Head(s2)) THEN -1
        ELSE IF s1 # << >> /\ Head(s1) = "-" THEN - v ELSE v

\* strtol (str, NULL, 10); the model's numbers stay far inside the range of int
strtol(str) ==
    LET s1 == SkipSpaces(str)
        s2 == IF s1 # << >> /\ Head(s1) \in {"+", "-"} THEN Tail(s1) ELSE s1
        v  == ParseDigits(s2, 0)
    IN  IF s1 # << >> /\ Head(s1) = "-" THEN - v ELSE v

-----------------------------------------------------------------------------
(* The button widget.  A handler works on s = [b |-> the button, tr |-> the *)
(* calls made so far] and returns the same shape.                           *)

emit(s, call, arg) == [s EXCEPT !.tr = Append(@, <<call, arg>>)]

BoolStr(v) == IF v THEN "TRUE" ELSE "FALSE"

\* g_return_if_fail: the check fails, a critical is logged, the function returns
g_return_if_fail_warning(s, func) == emit(s, "g_return_if_fail_warning", func)

\* the widget state the ButtonWidget / tooltip / ATK setters leave behind
button_widget_set_icon_name(s, icon) ==
    emit([s EXCEPT !.b.icon_name = icon], "button_widget_set_icon_name", icon)

panel_util_set_tooltip_text(s, text) ==
    emit([s EXCEPT !.b.tooltip = text], "panel_util_set_tooltip_text", text)

panel_a11y_set_atk_name_desc(s, name, desc) ==
    emit([s EXCEPT !.b.atk_name = IF name # NULL THEN name ELSE @,
                   !.b.atk_desc = IF desc # NULL THEN desc ELSE @],
         "panel_a11y_set_atk_name_desc", name)

button_widget_set_activatable(s, v) ==
    emit([s EXCEPT !.b.activatable = v], "button_widget_set_activatable", BoolStr(v))

\* panel_action_button_init, on the instance g_object_new allocates; the
\* ButtonWidget parent decides the initial "activatable"
panel_action_button_init(activatable0) ==
    [ phase |-> "live",
      type |-> PANEL_ACTION_NONE, info |-> NULL, settings |-> NULL,
      dnd_enabled |-> FALSE,
      icon_name |-> NULL, tooltip |-> NULL, atk_name |-> NULL, atk_desc |-> NULL,
      activatable |-> activatable0,
      callbacks |-> {},
      type_changed_handlers |-> 0,
      type_changed_detail |-> NULL,
      lockdown_notify |-> 0,
      style_updated_handler |-> FALSE,
      drag_source |-> NULL ]

\* no instance: before the first load, and after an instance is finalized
NoButton(phase) == [ panel_action_button_init(FALSE) EXCEPT !.phase = phase ]

panel_action_button_update_sensitivity(s, e) ==
    IF actions[s.b.type].is_disabled # NULL
    THEN button_widget_set_activatable(
             emit(s, "is_disabled", actions[s.b.type].is_disabled),
             ~ call_is_disabled(actions[s.b.type].is_disabled, e))
    ELSE s

\* set_type that leaves the tooltip of the previous kind in place
panel_action_button_set_type_stale_tooltip(s, type, e) ==
    IF type = 0 THEN s
    ELSE IF ~ (type > PANEL_ACTION_NONE /\ type < PANEL_ACTION_LAST)
         THEN g_return_if_fail_warning(s, "panel_action_button_set_type")
    ELSE IF type = s.b.type THEN s
    ELSE LET s1 == [s EXCEPT !.b.type = type]
             s2 == IF actions[type].icon_name # NULL
                   THEN button_widget_set_icon_name(s1, actions[type].icon_name)
                   ELSE s1
             s4 == panel_a11y_set_atk_name_desc(s2, actions[type].tooltip, NULL)
         IN  panel_action_button_update_sensitivity(s4, e)

\* set_type without the test for the kind the button already has
panel_action_button_set_type_no_same_check(s, type, e) ==
    IF type = 0 THEN s
    ELSE IF ~ (type > PANEL_ACTION_NONE /\ type < PANEL_ACTION_LAST)
         THEN g_return_if_fail_warning(s, "panel_action_button_set_type")
    ELSE LET s1 == [s EXCEPT !.b.type = type]
             s2 == IF actions[type].icon_name # NULL
                   THEN button_widget_set_icon_name(s1, actions[type].icon_name)
                   ELSE s1
             s3 == panel_util_set_tooltip_text(s2, actions[type].tooltip)
             s4 == panel_a11y_set_atk_name_desc(s3, actions[type].tooltip, NULL)
         IN  panel_action_button_update_sensitivity(s4, e)

\* set_type without the early return for PANEL_ACTION_NONE and the range check
panel_action_button_set_type_accepts_none(s, type, e) ==
    IF ~ (type >= PANEL_ACTION_NONE /\ type < PANEL_ACTION_LAST)
         THEN g_return_if_fail_warning(s, "panel_action_button_set_type")
    ELSE IF type = s.b.type THEN s
    ELSE LET s1 == [s EXCEPT !.b.type = type]
             s2 == IF actions[type].icon_name # NULL
                   THEN button_widget_set_icon_name(s1, actions[type].icon_name)
                   ELSE s1
             s3 == panel_util_set_tooltip_text(s2, actions[type].tooltip)
             s4 == panel_a11y_set_atk_name_desc(s3, actions[type].tooltip, NULL)
         IN  panel_action_button_update_sensitivity(s4, e)

\* set_type that brings the menu callbacks in line with the new kind
panel_action_button_set_type_updates_menu(s, type, e) ==
    IF type = 0 THEN s
    ELSE IF ~ (type > PANEL_ACTION_NONE /\ type < PANEL_ACTION_LAST)
         THEN g_return_if_fail_warning(s, "panel_action_button_set_type")
    ELSE IF type = s.b.type THEN s
    ELSE LET s1 == [s EXCEPT !.b.type = type,
                             !.b.callbacks = IF type = PANEL_ACTION_LOCK
                                             THEN { "help", "activate", "lock", "prefs" }
                                             ELSE { "help" }]
             s2 == IF actions[type].icon_name # NULL
                   THEN button_widget_set_icon_name(s1, actions[type].icon_name)
                   ELSE s1
             s3 == panel_util_set_tooltip_text(s2, actions[type].tooltip)
             s4 == panel_a11y_set_atk_name_desc(s3, actions[type].tooltip, NULL)
         IN  panel_action_button_update_sensitivity(s4, e)

panel_action_button_set_type(s, type, e) ==
    IF type = 0 THEN s
    ELSE IF ~ (type > PANEL_ACTION_NONE /\ type < PANEL_ACTION_LAST)
         THEN g_return_if_fail_warning(s, "panel_action_button_set_type")
    ELSE IF type = s.b.type THEN s
    ELSE LET s1 == [s EXCEPT !.b.type = type]
             s2 == IF actions[type].icon_name # NULL
                   THEN button_widget_set_icon_name(s1, actions[type].icon_name)
                   ELSE s1
             s3 == panel_util_set_tooltip_text(s2, actions[type].tooltip)
             s4 == panel_a11y_set_atk_name_desc(s3, actions[type].tooltip, NULL)
         IN  panel_action_button_update_sensitivity(s4, e)

panel_action_button_type_changed(s, stored, e) ==
    panel_action_button_set_type(s, stored, e)

\* the settings object emits "changed" for key, whose value is now stored: a
\* handler connected with a detail runs for that key only
g_settings_changed(s, key, stored, e) ==
    IF s.b.type_changed_handlers > 0 /\ s.b.type_changed_detail \in { NULL, key }
    THEN panel_action_button_type_changed(s, stored, e)
    ELSE s

\* set_dnd_enabled that does not wait for the button to have a kind
panel_action_button_set_dnd_enabled_ignores_type(s, enabled) ==
    IF s.b.dnd_enabled = enabled THEN s
    ELSE LET s1 == IF enabled
                   THEN LET d == emit(s, "gtk_drag_source_set",
                                      "application/x-mate-panel-applet-internal")
                        IN  IF actions[s.b.type].icon_name # NULL
                            THEN emit([d EXCEPT !.b.drag_source =
                                                    actions[s.b.type].icon_name],
                                      "gtk_drag_source_set_icon_name",
                                      actions[s.b.type].icon_name)
                            ELSE [d EXCEPT !.b.drag_source = "set"]
                   ELSE emit([s EXCEPT !.b.drag_source = NULL],
                             "gtk_drag_source_unset", NULL)
         IN  emit([s1 EXCEPT !.b.dnd_enabled = enabled], "g_object_notify", "dnd-enabled")

panel_action_button_set_dnd_enabled(s, enabled) ==
    IF s.b.type = 0 THEN s
    ELSE IF s.b.dnd_enabled = enabled THEN s
    ELSE LET s1 == IF enabled
                   THEN LET d == emit(s, "gtk_drag_source_set",
                                      "application/x-mate-panel-applet-internal")
                        IN  IF actions[s.b.type].icon_name # NULL
                            THEN emit([d EXCEPT !.b.drag_source =
                                                    actions[s.b.type].icon_name],
                                      "gtk_drag_source_set_icon_name",
                                      actions[s.b.type].icon_name)
                            ELSE [d EXCEPT !.b.drag_source = "set"]
                   ELSE emit([s EXCEPT !.b.drag_source = NULL],
                             "gtk_drag_source_unset", NULL)
         IN  emit([s1 EXCEPT !.b.dnd_enabled = enabled], "g_object_notify", "dnd-enabled")

panel_action_button_set_property(s, prop_id, value, e) ==
    CASE prop_id = "PROP_ACTION_TYPE" -> panel_action_button_set_type(s, value, e)
      [] prop_id = "PROP_DND_ENABLED" ->
             panel_action_button_set_dnd_enabled(s, value # 0)
      [] OTHER -> emit(s, "G_OBJECT_WARN_INVALID_PROPERTY_ID", prop_id)

panel_action_button_style_updated(s) ==
    IF actions[s.b.type].icon_name # NULL
    THEN button_widget_set_icon_name(s, actions[s.b.type].icon_name)
    ELSE s

\* finalize that releases the settings handle with the listener still connected
\* and leaves the lockdown notifier in place
panel_action_button_finalize_keeps_listeners(s) ==
    LET s1 == IF s.b.settings # NULL
              THEN emit([s EXCEPT !.b.settings = NULL], "g_clear_object", "settings")
              ELSE s
        s2 == [s1 EXCEPT !.b.info = NULL, !.b.type = PANEL_ACTION_NONE]
    IN  [ b |-> [ NoButton("finalized") EXCEPT
                    !.type_changed_handlers = s2.b.type_changed_handlers,
                    !.lockdown_notify = s2.b.lockdown_notify ],
          tr |-> s2.tr ]

\* the instance is gone afterwards: what is left of b is the NoButton record,
\* the calls made on the way are in tr
panel_action_button_finalize(s) ==
    LET s1 == IF s.b.settings # NULL
              THEN emit(emit([s EXCEPT !.b.type_changed_handlers = 0, !.b.settings = NULL],
                             "g_signal_handlers_disconnect_by_func",
                             "panel_action_button_type_changed"),
                        "g_clear_object", "settings")
              ELSE s
        s2 == [s1 EXCEPT !.b.info = NULL, !.b.type = PANEL_ACTION_NONE]
        s3 == emit([s2 EXCEPT !.b.lockdown_notify = IF @ > 0 THEN @ - 1 ELSE 0],
                   "panel_lockdown_notify_remove",
                   "panel_action_button_update_sensitivity")
    IN  [ b |-> [ NoButton("finalized") EXCEPT
                    !.type_changed_handlers = s3.b.type_changed_handlers,
                    !.lockdown_notify = s3.b.lockdown_notify ],
          tr |-> s3.tr ]

panel_action_lock_setup_menu(s) ==
    emit(emit(emit([s EXCEPT !.b.callbacks = @ \cup {"activate", "lock", "prefs"}],
                   "mate_panel_applet_add_callback", "activate"),
              "mate_panel_applet_add_callback", "lock"),
         "mate_panel_applet_add_callback", "prefs")

call_setup_menu(hook, s) ==
    CASE hook = "panel_action_lock_setup_menu" -> panel_action_lock_setup_menu(s)

\* connect_to_gsettings that connects the handler to "changed" without a detail
panel_action_button_connect_to_gsettings_any_key(s) ==
    LET s1 == emit([s EXCEPT !.b.settings = "settings"], "g_settings_new_with_path",
                   "settings")
        s2 == emit([s1 EXCEPT !.b.type_changed_handlers = @ + 1,
                              !.b.type_changed_detail = NULL],
                   "g_signal_connect", "changed")
    IN  emit([s2 EXCEPT !.b.lockdown_notify = @ + 1], "panel_lockdown_notify_add",
             "panel_action_button_update_sensitivity")

\* type_changed_detail: the key named after "changed::" in the signal name
panel_action_button_connect_to_gsettings(s) ==
    LET s1 == emit([s EXCEPT !.b.settings = "settings"], "g_settings_new_with_path",
                   "settings")
        s2 == emit([s1 EXCEPT !.b.type_changed_handlers = @ + 1,
                              !.b.type_changed_detail = "action-type"],
                   "g_signal_connect", "changed::action-type")
    IN  emit([s2 EXCEPT !.b.lockdown_notify = @ + 1], "panel_lockdown_notify_add",
             "panel_action_button_update_sensitivity")

\* load that subscribes the button before it asks the panel to register it
panel_action_button_load_connects_first(type, registered, activatable0, e) ==
    LET s0 == [ b |-> panel_action_button_init(activatable0), tr |-> <<>> ]
        s1 == panel_action_button_set_property(s0, "PROP_ACTION_TYPE", type, e)
        s2 == panel_action_button_connect_to_gsettings(s1)
        s3 == emit([s2 EXCEPT !.b.info = IF registered THEN "info" ELSE NULL],
                   "mate_panel_applet_register", BoolStr(registered))
    IN  IF s3.b.info = NULL
        THEN panel_action_button_finalize(emit(s3, "gtk_widget_destroy", "button"))
        ELSE LET s4 == emit([s3 EXCEPT !.b.callbacks = @ \cup {"help"}],
                            "mate_panel_applet_add_callback", "help")
                 s5 == IF actions[s4.b.type].setup_menu # NULL
                       THEN call_setup_menu(actions[s4.b.type].setup_menu, s4)
                       ELSE s4
             IN  emit([s5 EXCEPT !.b.style_updated_handler = TRUE], "g_signal_connect",
                      "style-updated")

\* type: the value read from the settings key; registered: whether
\* mate_panel_applet_register returns an AppletInfo; activatable0: the
\* "activatable" state of a new ButtonWidget
panel_action_button_load(type, registered, activatable0, e) ==
    LET s0 == [ b |-> panel_action_button_init(activatable0), tr |-> <<>> ]
        s1 == panel_action_button_set_property(s0, "PROP_ACTION_TYPE", type, e)
        s2 == emit([s1 EXCEPT !.b.info = IF registered THEN "info" ELSE NULL],
                   "mate_panel_applet_register", BoolStr(registered))
    IN  IF s2.b.info = NULL
        THEN panel_action_button_finalize(emit(s2, "gtk_widget_destroy", "button"))
        ELSE LET s3 == emit([s2 EXCEPT !.b.callbacks = @ \cup {"help"}],
                            "mate_panel_applet_add_callback", "help")
                 s4 == IF actions[s3.b.type].setup_menu # NULL
                       THEN call_setup_menu(actions[s3.b.type].setup_menu, s3)
                       ELSE s3
                 s5 == panel_action_button_connect_to_gsettings(s4)
             IN  emit([s5 EXCEPT !.b.style_updated_handler = TRUE], "g_signal_connect",
                      "style-updated")

panel_action_button_load_from_gsettings(stored, registered, activatable0, e) ==
    panel_action_button_load(stored, registered, activatable0, e)

\* clicked that runs the hook first and hides the drawer afterwards
panel_action_button_clicked_hide_last(s, drawer_auto_close, is_attached) ==
    IF ~ (s.b.type > PANEL_ACTION_NONE /\ s.b.type < PANEL_ACTION_LAST)
    THEN g_return_if_fail_warning(s, "panel_action_button_clicked")
    ELSE LET s1 == IF actions[s.b.type].invoke # NULL
                   THEN emit(s, "invoke", actions[s.b.type].invoke)
                   ELSE s
         IN  IF drawer_auto_close /\ is_attached
             THEN emit(s1, "panel_toplevel_hide", "toplevel")
             ELSE s1

\* drawer_auto_close: panel_global_config_get_drawer_auto_close ();
\* is_attached: panel_toplevel_get_is_attached of the button's toplevel
panel_action_button_clicked(s, drawer_auto_close, is_attached) ==
    IF ~ (s.b.type > PANEL_ACTION_NONE)
    THEN g_return_if_fail_warning(s, "panel_action_button_clicked")
    ELSE IF ~ (s.b.type < PANEL_ACTION_LAST)
    THEN g_return_if_fail_warning(s, "panel_action_button_clicked")
    ELSE LET s1 == IF drawer_auto_close /\ is_attached
                   THEN emit(s, "panel_toplevel_hide", "toplevel")
                   ELSE s
         IN  IF actions[s.b.type].invoke # NULL
             THEN emit(s1, "invoke", actions[s.b.type].invoke)
             ELSE s1

panel_action_lock_invoke_menu(s, callback_name) ==
    IF callback_name = NULL
    THEN g_return_if_fail_warning(s, "panel_action_lock_invoke_menu")
    ELSE emit(s, "panel_lock_screen_action", callback_name)

call_invoke_menu(hook, s, callback_name) ==
    CASE hook = "panel_action_lock_invoke_menu" ->
             panel_action_lock_invoke_menu(s, callback_name)

\* invoke_menu that goes on to the kind's hook after showing the help
panel_action_button_invoke_menu_help_falls_through(s, callback_name) ==
    IF callback_name = NULL
    THEN g_return_if_fail_warning(s, "panel_action_button_invoke_menu")
    ELSE IF ~ (s.b.type > PANEL_ACTION_NONE /\ s.b.type < PANEL_ACTION_LAST)
    THEN g_return_if_fail_warning(s, "panel_action_button_invoke_menu")
    ELSE LET s1 == IF callback_name = "help" /\ actions[s.b.type].help_index # NULL
                   THEN emit(s, "panel_show_help", actions[s.b.type].help_index)
                   ELSE s
         IN  IF actions[s.b.type].invoke_menu # NULL
             THEN call_invoke_menu(actions[s.b.type].invoke_menu,
                                   emit(s1, "invoke_menu", actions[s.b.type].invoke_menu),
                                   callback_name)
             ELSE s1

\* the applet menu hands over the name of the callback the user picked
panel_action_button_invoke_menu(s, callback_name) ==
    IF callback_name = NULL
    THEN g_return_if_fail_warning(s, "panel_action_button_invoke_menu")
    ELSE IF ~ (s.b.type > PANEL_ACTION_NONE /\ s.b.type < PANEL_ACTION_LAST)
    THEN g_return_if_fail_warning(s, "panel_action_button_invoke_menu")
    ELSE IF callback_name = "help"
    THEN IF actions[s.b.type].help_index = NULL
         THEN s
         ELSE emit(s, "panel_show_help", actions[s.b.type].help_index)
    ELSE IF actions[s.b.type].invoke_menu # NULL
    THEN call_invoke_menu(actions[s.b.type].invoke_menu,
                          emit(s, "invoke_menu", actions[s.b.type].invoke_menu),
                          callback_name)
    ELSE s

-----------------------------------------------------------------------------
(* Drag and drop: the token a button puts on the selection, and the drop *)

ACTION_PREFIX == <<"A","C","T","I","O","N",":">>

get_action_type_name(id) ==
    IF id >= 0 /\ id < PANEL_ACTION_LAST THEN panel_action_type[id] ELSE NULL

\* a lookup that takes every name for the first kind after None
get_action_type_id_always_found(name) ==
    LET hits == { i \in 0 .. (PANEL_ACTION_LAST - 1) :
                    g_ascii_strcasecmp_equal(panel_action_type[i], name) }
    IN  IF hits # {}
        THEN [ found |-> TRUE, id |-> CHOOSE i \in hits : \A j \in hits : i <= j ]
        ELSE [ found |-> TRUE, id |-> PANEL_ACTION_LOCK ]

\* a lookup that compares with strcmp
get_action_type_id_case_sensitive(name) ==
    LET hits == { i \in 0 .. (PANEL_ACTION_LAST - 1) : panel_action_type[i] = name }
    IN  IF hits # {}
        THEN [ found |-> TRUE, id |-> CHOOSE i \in hits : \A j \in hits : i <= j ]
        ELSE [ found |-> FALSE, id |-> 0 ]

\* [found, id]: the first entry of panel_action_type that matches name
get_action_type_id(name) ==
    LET hits == { i \in 0 .. (PANEL_ACTION_LAST - 1) :
                    g_ascii_strcasecmp_equal(panel_action_type[i], name) }
    IN  IF hits # {}
        THEN [ found |-> TRUE, id |-> CHOOSE i \in hits : \A j \in hits : i <= j ]
        ELSE [ found |-> FALSE, id |-> 0 ]

panel_action_get_drag_id(type) ==
    IF ~ (type > PANEL_ACTION_NONE /\ type < PANEL_ACTION_LAST) THEN NULL
    ELSE actions[type].drag_id

\* the selection data: g_strdup_printf ("ACTION:%s:%d", name of type, applet_index)
panel_action_button_drag_data_get(type, applet_index) ==
    ACTION_PREFIX \o get_action_type_name(type) \o <<":">> \o FormatD(applet_index)

\* the id goes on the object id list, and the change of the list has the panel
\* load the object: panel_action_button_load_from_gsettings reads the
\* action-type key under the id's path as it is at that moment
panel_profile_add_to_list(w, id) ==
    [ p |-> [ w.p EXCEPT !.object_id_list = Append(@, id),
                         !.loads = Append(@, [ id |-> id,
                                               type |-> w.p.objects[id].action_type ]) ],
      tr |-> Append(w.tr, <<"panel_profile_add_to_list", "object-id-list">>) ]

\* create that puts the id on the list before it writes the key
panel_action_button_create_lists_first(w, position, type) ==
    LET id == Len(w.p.objects) + 1
        w1 == [ p |-> [ w.p EXCEPT !.objects =
                          Append(@, [ id |-> id, position |-> position,
                                      action_type |-> PANEL_ACTION_NONE,
                                      writes |-> 0 ]) ],
                tr |-> Append(w.tr, <<"panel_profile_prepare_object", "action">>) ]
        w2 == panel_profile_add_to_list(w1, id)
    IN  [ p |-> [ w2.p EXCEPT !.objects[id].action_type = type,
                              !.objects[id].writes = @ + 1 ],
          tr |-> Append(w2.tr, <<"g_settings_set_enum", "action-type">>) ]

\* w = [p |-> the profile, tr |-> the calls made so far].  The id is the one
\* panel_profile_prepare_object makes up for the new object.
panel_action_button_create(w, position, type) ==
    LET id == Len(w.p.objects) + 1
        w1 == [ p |-> [ w.p EXCEPT !.objects =
                          Append(@, [ id |-> id, position |-> position,
                                      action_type |-> PANEL_ACTION_NONE,
                                      writes |-> 0 ]) ],
                tr |-> Append(w.tr, <<"panel_profile_prepare_object", "action">>) ]
        w2 == [ p |-> [ w1.p EXCEPT !.objects[id].action_type = type,
                                    !.objects[id].writes = @ + 1 ],
                tr |-> Append(w1.tr, <<"g_settings_set_enum", "action-type">>) ]
    IN  panel_profile_add_to_list(w2, id)

\* load_from_drag that never tells the caller to remove the old applet
panel_action_button_load_from_drag_never_removes(w, position, drag_string) ==
    LET rejected == [ called |-> TRUE, retval |-> FALSE, position |-> position,
                      idx_written |-> FALSE, old_applet_idx |-> 0 ]
    IN
    IF ~ strncmp_equal(drag_string, ACTION_PREFIX) THEN [ w |-> w, d |-> rejected ]
    ELSE LET elements == g_strsplit(drag_string) IN
    IF Len(elements) < 2 \/ Len(elements) < 3 THEN [ w |-> w, d |-> rejected ]
    ELSE LET got == get_action_type_id(elements[2]) IN
    IF ~ got.found THEN [ w |-> w, d |-> rejected ]
    ELSE IF ~ (got.id > PANEL_ACTION_NONE /\ got.id < PANEL_ACTION_LAST)
    THEN [ w |-> [ w EXCEPT !.tr = Append(@, <<"g_return_if_fail_warning",
                                             "panel_action_button_load_from_drag">>) ],
           d |-> rejected ]
    ELSE LET remove == FALSE IN
         [ w |-> panel_action_button_create(w, position, got.id),
           d |-> [ called |-> TRUE, retval |-> remove, position |-> position,
                   idx_written |-> remove,
                   old_applet_idx |-> IF remove THEN strtol(elements[3]) ELSE 0 ] ]

\* load_from_drag without the test for the "NEW" field
panel_action_button_load_from_drag_no_new_test(w, position, drag_string) ==
    LET rejected == [ called |-> TRUE, retval |-> FALSE, position |-> position,
                      idx_written |-> FALSE, old_applet_idx |-> 0 ]
    IN
    IF ~ strncmp_equal(drag_string, ACTION_PREFIX) THEN [ w |-> w, d |-> rejected ]
    ELSE LET elements == g_strsplit(drag_string) IN
    IF Len(elements) < 2 \/ Len(elements) < 3 THEN [ w |-> w, d |-> rejected ]
    ELSE LET got == get_action_type_id(elements[2]) IN
    IF ~ got.found THEN [ w |-> w, d |-> rejected ]
    ELSE IF ~ (got.id > PANEL_ACTION_NONE /\ got.id < PANEL_ACTION_LAST)
    THEN [ w |-> [ w EXCEPT !.tr = Append(@, <<"g_return_if_fail_warning",
                                             "panel_action_button_load_from_drag">>) ],
           d |-> rejected ]
    ELSE LET remove == TRUE IN
         [ w |-> panel_action_button_create(w, position, got.id),
           d |-> [ called |-> TRUE, retval |-> remove, position |-> position,
                   idx_written |-> remove,
                   old_applet_idx |-> IF remove THEN strtol(elements[3]) ELSE 0 ] ]

\* [w, d]: the profile and calls afterwards, and d = what the caller gets back
panel_action_button_load_from_drag(w, position, drag_string) ==
    LET rejected == [ called |-> TRUE, retval |-> FALSE, position |-> position,
                      idx_written |-> FALSE, old_applet_idx |-> 0 ]
    IN
    IF ~ strncmp_equal(drag_string, ACTION_PREFIX) THEN [ w |-> w, d |-> rejected ]
    ELSE LET elements == g_strsplit(drag_string) IN
    IF Len(elements) < 2 \/ Len(elements) < 3 THEN [ w |-> w, d |-> rejected ]
    ELSE LET got == get_action_type_id(elements[2]) IN
    IF ~ got.found THEN [ w |-> w, d |-> rejected ]
    ELSE IF ~ (got.id > PANEL_ACTION_NONE /\ got.id < PANEL_ACTION_LAST)
    THEN [ w |-> [ w EXCEPT !.tr = Append(@, <<"g_return_if_fail_warning",
                                             "panel_action_button_load_from_drag">>) ],
           d |-> rejected ]
    ELSE LET remove == elements[3] # <<"N","E","W">> IN
         [ w |-> panel_action_button_create(w, position, got.id),
           d |-> [ called |-> TRUE, retval |-> remove, position |-> position,
                   idx_written |-> remove,
                   old_applet_idx |-> IF remove THEN strtol(elements[3]) ELSE 0 ] ]

-----------------------------------------------------------------------------
(* The invoke hooks of Log Out, Shut Down and Connect to Server.  A hook is  *)
(* given what it reads (h, the host) and what its collaborators answer, and  *)
(* gives the calls it makes, in order.                                       *)

\* Log Out that goes without asking when there is no session schema
panel_action_logout_silent_without_schema(h) ==
    LET prompt == IF h.session_schema_exists THEN h.logout_prompt ELSE FALSE
        read == IF h.session_schema_exists
                THEN << <<"g_settings_get_boolean", "logout-prompt">> >>
                ELSE << >>
    IN  IF ~ prompt
        THEN Append(read, <<"panel_session_manager_request_logout",
                            "PANEL_SESSION_MANAGER_LOGOUT_MODE_NO_CONFIRMATION">>)
        ELSE Append(read, <<"panel_session_manager_request_logout",
                            "PANEL_SESSION_MANAGER_LOGOUT_MODE_NORMAL">>)

panel_action_logout(h) ==
    LET prompt == IF h.session_schema_exists THEN h.logout_prompt ELSE TRUE
        read == IF h.session_schema_exists
                THEN << <<"g_settings_get_boolean", "logout-prompt">> >>
                ELSE << >>
    IN  IF ~ prompt
        THEN Append(read, <<"panel_session_manager_request_logout",
                            "PANEL_SESSION_MANAGER_LOGOUT_MODE_NO_CONFIRMATION">>)
        ELSE Append(read, <<"panel_session_manager_request_logout",
                            "PANEL_SESSION_MANAGER_LOGOUT_MODE_NORMAL">>)

\* the exit statuses system () hands back: could not run, success, exit code 1
SystemStatuses == { -1, 0, 256 }

\* the responses the dialog's buttons give, and the one of closing its window
ResponseIds == { "GTK_RESPONSE_CANCEL", "GTK_RESPONSE_OK", "GTK_RESPONSE_ACCEPT",
                 "GTK_RESPONSE_REJECT", "GTK_RESPONSE_APPLY",
                 "GTK_RESPONSE_DELETE_EVENT" }

show_error_dialog(tr, label) == Append(tr, <<"show_error_dialog", label>>)

\* status1, status2: what the first and the second system () of the response
\* return
wayland_shutdown_response_cb(response_id, status1, status2) ==
    LET destroyed == << <<"gtk_widget_destroy", "dialog">> >> IN
    CASE response_id = "GTK_RESPONSE_CANCEL" -> destroyed
      [] response_id = "GTK_RESPONSE_OK" ->
             destroyed \o << <<"system", "shutdown now">>,
                             <<"system", "systemctl poweroff -i">> >>
      [] response_id = "GTK_RESPONSE_ACCEPT" ->
             destroyed \o << <<"system", "reboot now">>,
                             <<"system", "systemctl reboot -i">> >>
      [] response_id = "GTK_RESPONSE_REJECT" ->
             LET tr == Append(destroyed, <<"system", "systemctl hibernate -i">>)
             IN  IF status1 # 0
                 THEN show_error_dialog(tr, "Hibernation not supported on this system")
                 ELSE tr
      [] response_id = "GTK_RESPONSE_APPLY" ->
             LET tr == Append(destroyed, <<"system", "systemctl suspend -i">>)
             IN  IF status1 # 0
                 THEN show_error_dialog(tr, "Suspend not supported on this system")
                 ELSE tr
      [] OTHER -> << >>

\* [dialog, tr]: whether a dialog is put on the screen, and the calls made
panel_action_shutdown(e) ==
    IF e.wayland_display
    THEN [ dialog |-> TRUE,
           tr |-> << <<"gtk_dialog_new_with_buttons", "System Shutdown">>,
                     <<"g_signal_connect_swapped", "response">>,
                     <<"gtk_widget_show_all", "dialog">> >> ]
    ELSE [ dialog |-> FALSE,
           tr |-> << <<"panel_session_manager_request_shutdown", "manager">> >> ]

\* Connect to Server that tries the next helper when a launch fails
panel_action_connect_server_retries(h, spawn_error) ==
    LET probes == << <<"panel_is_program_in_path", "caja-connect-server">> >>
                  \o IF h.caja_in_path THEN << >>
                     ELSE << <<"panel_is_program_in_path", "nautilus-connect-server">> >>
        command == IF h.caja_in_path THEN "caja-connect-server"
                   ELSE IF h.nautilus_in_path THEN "nautilus-connect-server"
                   ELSE "nemo-connect-server"
        spawned == Append(probes, <<"mate_gdk_spawn_command_line_on_screen", command>>)
    IN  IF spawn_error
        THEN Append(spawned, <<"mate_gdk_spawn_command_line_on_screen",
                               "nemo-connect-server">>)
        ELSE spawned

\* spawn_error: whether mate_gdk_spawn_command_line_on_screen sets error
panel_action_connect_server(h, spawn_error) ==
    LET probes == << <<"panel_is_program_in_path", "caja-connect-server">> >>
                  \o IF h.caja_in_path THEN << >>
                     ELSE << <<"panel_is_program_in_path", "nautilus-connect-server">> >>
        command == IF h.caja_in_path THEN "caja-connect-server"
                   ELSE IF h.nautilus_in_path THEN "nautilus-connect-server"
                   ELSE "nemo-connect-server"
        spawned == Append(probes, <<"mate_gdk_spawn_command_line_on_screen", command>>)
    IN  IF spawn_error
        THEN Append(spawned, <<"panel_error_dialog", "cannot_connect_server">>)
        ELSE spawned

-----------------------------------------------------------------------------
(* panel-stock-icons.c: the icon sizes registered at startup *)

PANEL_DEFAULT_MENU_ICON_SIZE == 24
PANEL_DEFAULT_MENU_BAR_ICON_SIZE == 24
PANEL_ADD_TO_DEFAULT_ICON_SIZE == 32

\* the values the two enum keys of the menu bar schema take
IconSizeValues == { -1, 0, 16, 22, 24, 32, 48, 64 }

\* GTK's own sizes: GTK_ICON_SIZE_MENU is token 1, GTK_ICON_SIZE_DIALOG token 6;
\* token 0 is GTK_ICON_SIZE_INVALID
GtkBuiltinIconSizes ==
    << [ name |-> "gtk-menu", width |-> 16, height |-> 16 ],
       [ name |-> "gtk-small-toolbar", width |-> 16, height |-> 16 ],
       [ name |-> "gtk-large-toolbar", width |-> 24, height |-> 24 ],
       [ name |-> "gtk-button", width |-> 16, height |-> 16 ],
       [ name |-> "gtk-dnd", width |-> 32, height |-> 32 ],
       [ name |-> "gtk-dialog", width |-> 48, height |-> 48 ] >>

\* [sizes, token]: the registry afterwards and the token of the new size
gtk_icon_size_register(sizes, name, width, height) ==
    [ sizes |-> Append(sizes, [ name |-> name, width |-> width, height |-> height ]),
      token |-> Len(sizes) + 1 ]

\* the registration that treats a stored 0 as a size the user chose
panel_init_stock_icons_and_items_zero_is_override(settings, sizes) ==
    LET r1 == IF settings.item_icon_size < 0
              THEN gtk_icon_size_register(sizes, "panel-menu",
                       PANEL_DEFAULT_MENU_ICON_SIZE, PANEL_DEFAULT_MENU_ICON_SIZE)
              ELSE gtk_icon_size_register(sizes, "__panel-menu",
                       settings.item_icon_size, settings.item_icon_size)
        r2 == IF settings.icon_size < 0
              THEN gtk_icon_size_register(r1.sizes, "panel-foobar",
                       PANEL_DEFAULT_MENU_BAR_ICON_SIZE, PANEL_DEFAULT_MENU_BAR_ICON_SIZE)
              ELSE gtk_icon_size_register(r1.sizes, "__panel-foobar",
                       settings.icon_size, settings.icon_size)
        r3 == gtk_icon_size_register(r2.sizes, "panel-add-to",
                   PANEL_ADD_TO_DEFAULT_ICON_SIZE, PANEL_ADD_TO_DEFAULT_ICON_SIZE)
    IN  [ panel_menu_icon_size |-> r1.token,
          panel_menu_bar_icon_size |-> r2.token,
          panel_add_to_icon_size |-> r3.token,
          sizes |-> r3.sizes ]

\* settings: the menu bar schema as g_settings_get_enum reads it; sizes: GTK's
\* registry.  Gives the three statics and the registry afterwards.
panel_init_stock_icons_and_items(settings, sizes) ==
    LET r1 == IF settings.item_icon_size <= 0
              THEN gtk_icon_size_register(sizes, "panel-menu",
                       PANEL_DEFAULT_MENU_ICON_SIZE, PANEL_DEFAULT_MENU_ICON_SIZE)
              ELSE gtk_icon_size_register(sizes, "__panel-menu",
                       settings.item_icon_size, settings.item_icon_size)
        r2 == IF settings.icon_size <= 0
              THEN gtk_icon_size_register(r1.sizes, "panel-foobar",
                       PANEL_DEFAULT_MENU_BAR_ICON_SIZE, PANEL_DEFAULT_MENU_BAR_ICON_SIZE)
              ELSE gtk_icon_size_register(r1.sizes, "__panel-foobar",
                       settings.icon_size, settings.icon_size)
        r3 == gtk_icon_size_register(r2.sizes, "panel-add-to",
                   PANEL_ADD_TO_DEFAULT_ICON_SIZE, PANEL_ADD_TO_DEFAULT_ICON_SIZE)
    IN  [ panel_menu_icon_size |-> r1.token,
          panel_menu_bar_icon_size |-> r2.token,
          panel_add_to_icon_size |-> r3.token,
          sizes |-> r3.sizes ]

panel_menu_icon_get_size == panel_menu_icon_size

panel_menu_bar_icon_get_size == panel_menu_bar_icon_size

panel_add_to_icon_get_size == panel_add_to_icon_size

-----------------------------------------------------------------------------
(* Initial values *)

NoOp == [ name |-> "none", arg |-> 0, f1 |-> FALSE, f2 |-> FALSE ]

NoQuery == [ type |-> PANEL_ACTION_NONE, called |-> FALSE, ret |-> FALSE ]

NoDrag == [ source |-> "none", type |-> PANEL_ACTION_NONE, idx |-> 0, data |-> <<>> ]

\* idx_written: whether *old_applet_idx was assigned
NoDrop == [ called |-> FALSE, retval |-> FALSE, position |-> 0,
            idx_written |-> FALSE, old_applet_idx |-> 0 ]

\* objects: the settings paths written so far, each with its action-type key;
\* object_id_list: the profile's list of object ids; loads: the kinds read by
\* the loads that changes of the list set off
NoProfile == [ objects |-> <<>>, object_id_list |-> <<>>, loads |-> <<>> ]

InitButton ==
    /\ button = NoButton("unloaded")
    /\ op = NoOp
    /\ trace = <<>>

InitDrag ==
    /\ drag = NoDrag
    /\ profile = NoProfile
    /\ drop = NoDrop

\* no hook has run, on a machine with caja and a session schema that prompts;
\* shutdown_dialogs: the "System Shutdown" dialogs on the screen
NoHost == [ caja_in_path |-> TRUE, nautilus_in_path |-> FALSE,
            session_schema_exists |-> TRUE, logout_prompt |-> TRUE,
            shutdown_dialogs |-> 0 ]

NoInvoked == [ hook |-> NULL, response_id |-> NULL, status1 |-> 0, status2 |-> 0,
               spawn_error |-> FALSE ]

InitInvoke ==
    /\ host = NoHost
    /\ invoked = NoInvoked

\* the statics as the file initialises them, GTK with its own sizes only, and
\* both keys at "use the default"
InitStock ==
    /\ panel_menu_icon_size = 0
    /\ panel_menu_bar_icon_size = 0
    /\ panel_add_to_icon_size = 0
    /\ icon_sizes = GtkBuiltinIconSizes
    /\ menubar_settings = [ item_icon_size |-> 0, icon_size |-> 0 ]

\* Spec follows one button through a session whose facts do not change while
\* the lockdown flags do: an X11 session with a screensaver and a session
\* manager that can shut down, where each flag alone decides its hook's
\* answer.  SpecPolicy below draws the environment from all of Env.
SessionEnv ==
    { e \in Env : e.lock_available /\ ~ e.wayland_display /\ e.shutdown_available }

Init ==
    /\ env \in SessionEnv
    /\ InitButton
    /\ query = NoQuery
    /\ InitDrag
    /\ InitInvoke
    /\ InitStock

-----------------------------------------------------------------------------
(* The life of one button: Spec *)

ButtonUnchanged == UNCHANGED <<query, drag, profile, drop, invoke_vars, stock_vars>>

Ran(name, arg, f1, f2, r) ==
    /\ button' = r.b
    /\ trace' = r.tr
    /\ op' = [ name |-> name, arg |-> arg, f1 |-> f1, f2 |-> f2 ]

Running == [ b |-> button, tr |-> <<>> ]

\* the panel loads the object from its settings path
LoadFromGSettings ==
    /\ button.phase # "live"
    /\ \E stored \in StoredValues, registered \in BOOLEAN, activatable0 \in BOOLEAN :
          Ran("load_from_gsettings", stored, registered, activatable0,
              panel_action_button_load_from_gsettings(stored, registered,
                                                      activatable0, env))
    /\ UNCHANGED env
    /\ ButtonUnchanged

SetType ==
    /\ button.phase = "live"
    /\ \E type \in TypeValues :
          Ran("set_type", type, FALSE, FALSE,
              panel_action_button_set_type(Running, type, env))
    /\ UNCHANGED env
    /\ ButtonUnchanged

\* g_object_set (button, "action-type", value, NULL)
SetPropertyActionType ==
    /\ button.phase = "live"
    /\ \E value \in TypeValues :
          Ran("set_property_action_type", value, FALSE, FALSE,
              panel_action_button_set_property(Running, "PROP_ACTION_TYPE", value, env))
    /\ UNCHANGED env
    /\ ButtonUnchanged

\* g_object_set (button, "dnd-enabled", value, NULL)
SetPropertyDndEnabled ==
    /\ button.phase = "live"
    /\ \E value \in 0 .. 1 :
          Ran("set_property_dnd_enabled", value, value # 0, FALSE,
              panel_action_button_set_property(Running, "PROP_DND_ENABLED", value, env))
    /\ UNCHANGED env
    /\ ButtonUnchanged

SetDndEnabled ==
    /\ button.phase = "live"
    /\ \E enabled \in BOOLEAN :
          Ran("set_dnd_enabled", 0, enabled, FALSE,
              panel_action_button_set_dnd_enabled(Running, enabled))
    /\ UNCHANGED env
    /\ ButtonUnchanged

\* the "changed::action-type" signal of the button's GSettings object
TypeChanged ==
    /\ button.phase = "live"
    /\ button.type_changed_handlers > 0
    /\ \E stored \in TypeValues :
          Ran("type_changed", stored, FALSE, FALSE,
              panel_action_button_type_changed(Running, stored, env))
    /\ UNCHANGED env
    /\ ButtonUnchanged

\* another key of the object's settings path changes
OtherObjectKeys == { "position", "locked" }

OtherKeyChanged ==
    /\ button.phase = "live"
    /\ button.settings # NULL
    /\ \E key \in OtherObjectKeys, stored \in Positions :
          Ran("other_key_changed", stored, FALSE, FALSE,
              g_settings_changed(Running, key, stored, env))
    /\ UNCHANGED env
    /\ ButtonUnchanged

\* the callback names a menu hands to panel_action_button_invoke_menu: the
\* ones load registers, one no kind registers, and no name at all
CallbackNames == << "help", "activate", "lock", "prefs", "about", NULL >>

\* op.arg is the place of the name in CallbackNames
InvokeMenu ==
    /\ button.phase = "live"
    /\ \E i \in 1 .. Len(CallbackNames) :
          Ran("invoke_menu", i, FALSE, FALSE,
              panel_action_button_invoke_menu(Running, CallbackNames[i]))
    /\ UNCHANGED env
    /\ ButtonUnchanged

\* the lockdown policy changes and panel-lockdown calls every notifier
LockdownNotify ==
    /\ \E d \in [ disable_lock_screen : BOOLEAN, disable_log_out : BOOLEAN,
                   disable_command_line : BOOLEAN, disable_force_quit : BOOLEAN ] :
          /\ env' = [ env EXCEPT !.disable_lock_screen = d.disable_lock_screen,
                                  !.disable_log_out = d.disable_log_out,
                                  !.disable_command_line = d.disable_command_line,
                                  !.disable_force_quit = d.disable_force_quit ]
          /\ Ran("lockdown_notify", 0, button.lockdown_notify > 0, FALSE,
                 IF button.phase = "live" /\ button.lockdown_notify > 0
                 THEN panel_action_button_update_sensitivity(Running, env')
                 ELSE Running)
    /\ ButtonUnchanged

Clicked ==
    /\ button.phase = "live"
    /\ \E drawer_auto_close \in BOOLEAN, is_attached \in BOOLEAN :
          Ran("clicked", 0, drawer_auto_close, is_attached,
              panel_action_button_clicked(Running, drawer_auto_close, is_attached))
    /\ UNCHANGED env
    /\ ButtonUnchanged

StyleUpdated ==
    /\ button.phase = "live"
    /\ button.style_updated_handler
    /\ Ran("style_updated", 0, FALSE, FALSE, panel_action_button_style_updated(Running))
    /\ UNCHANGED env
    /\ ButtonUnchanged

\* the applet is removed from the panel and the last reference dropped
Destroy ==
    /\ button.phase = "live"
    /\ Ran("finalize", 0, FALSE, FALSE,
           panel_action_button_finalize(emit(Running, "gtk_widget_destroy", "button")))
    /\ UNCHANGED env
    /\ ButtonUnchanged

Next ==
    \/ LoadFromGSettings
    \/ SetType
    \/ SetPropertyActionType
    \/ SetPropertyDndEnabled
    \/ SetDndEnabled
    \/ TypeChanged
    \/ OtherKeyChanged
    \/ LockdownNotify
    \/ Clicked
    \/ InvokeMenu
    \/ StyleUpdated
    \/ Destroy

Spec == Init /\ [][Next]_vars

-----------------------------------------------------------------------------
(* The enablement query on its own: SpecPolicy *)

GetIsDisabled ==
    /\ \E type \in TypeValues :
          query' = [ type |-> type, called |-> TRUE,
                     ret |-> panel_action_get_is_disabled(type, env) ]
    /\ UNCHANGED <<env, button, op, trace, drag, profile, drop, invoke_vars, stock_vars>>

InitPolicy ==
    /\ env \in Env
    /\ InitButton
    /\ query = NoQuery
    /\ InitDrag
    /\ InitInvoke
    /\ InitStock

NextPolicy == GetIsDisabled

SpecPolicy == InitPolicy /\ [][NextPolicy]_vars

-----------------------------------------------------------------------------
(* Dragging a button and dropping the token on a panel: SpecDrag *)

\* tokens that reach a drop from elsewhere than a button or the action table
ForeignTokens ==
    { <<"N","O","T","A","C","T","I","O","N",":","l","o","c","k",":","N","E","W">>,
      <<"A","C","T","I","O","N",":","b","o","g","u","s",":","N","E","W">>,
      <<"A","C","T","I","O","N",":","l","o","c","k">>,
      <<"A","C","T","I","O","N",":">>,
      <<"A","C","T","I","O","N",":","L","O","C","K",":","N","E","W">>,
      <<"A","C","T","I","O","N",":","n","o","n","e",":","3">>,
      <<"A","C","T","I","O","N",":","N","o","n","E",":","N","E","W">>,
      <<"a","c","t","i","o","n",":","l","o","c","k",":","N","E","W">>,
      <<"A","C","T","I","O","N",":",":","N","E","W">>,
      << >>,
      <<"A","C","T","I","O","N",":","F","o","r","c","e","-","Q","u","i","t",":","7">>,
      <<"A","C","T","I","O","N",":","l","o","c","k",":","n","e","w">>,
      <<"A","C","T","I","O","N",":","r","u","n",":">>,
      <<"A","C","T","I","O","N",":","r","u","n",":","a","b","c">>,
      <<"A","C","T","I","O","N",":","s","e","a","r","c","h",":","2",":","9">> }

DragUnchanged == UNCHANGED <<env, button, op, query, invoke_vars, stock_vars>>

\* a drag starts on a button of kind type that is applet number idx of the
\* panel; only a bound button is a drag source
DragDataGet ==
    /\ \E type \in ValidTypes, idx \in 0 .. MaxIdx :
          drag' = [ source |-> "drag_data_get", type |-> type, idx |-> idx,
                    data |-> panel_action_button_drag_data_get(type, idx) ]
    /\ drop' = NoDrop
    /\ trace' = << >>
    /\ UNCHANGED profile
    /\ DragUnchanged

\* a drag starts on an entry of the "Add to Panel" list, which carries the
\* table's drag id
DragFromAddTo ==
    /\ \E type \in ValidTypes :
          drag' = [ source |-> "drag_id", type |-> type, idx |-> 0,
                    data |-> panel_action_get_drag_id(type) ]
    /\ drop' = NoDrop
    /\ trace' = << >>
    /\ UNCHANGED profile
    /\ DragUnchanged

DragForeign ==
    /\ \E token \in ForeignTokens :
          drag' = [ source |-> "foreign", type |-> PANEL_ACTION_NONE, idx |-> 0,
                    data |-> token ]
    /\ drop' = NoDrop
    /\ trace' = << >>
    /\ UNCHANGED profile
    /\ DragUnchanged

\* the drag ends on a panel: the drop handler hands the token over
LoadFromDrag ==
    /\ drag.source # "none"
    /\ ~ drop.called
    /\ Len(profile.objects) < MaxObjects
    /\ \E position \in Positions :
          LET r == panel_action_button_load_from_drag(
                       [ p |-> profile, tr |-> << >> ], position, drag.data)
          IN  /\ profile' = r.w.p
              /\ trace' = r.w.tr
              /\ drop' = r.d
    /\ UNCHANGED drag
    /\ DragUnchanged

NextDrag ==
    \/ DragDataGet
    \/ DragFromAddTo
    \/ DragForeign
    \/ LoadFromDrag

\* no handler of the drag path reads the environment: it starts without any
\* lockdown and stays there
InitDragSpec ==
    /\ env \in { e \in SessionEnv :
                    ~ e.disable_lock_screen /\ ~ e.disable_log_out
                    /\ ~ e.disable_command_line /\ ~ e.disable_force_quit }
    /\ InitButton
    /\ query = NoQuery
    /\ InitDrag
    /\ InitInvoke
    /\ InitStock

SpecDrag == InitDragSpec /\ [][NextDrag]_vars

-----------------------------------------------------------------------------
(* Properties of the button's life: checked under Spec *)

\* the steps that run panel_action_button_set_type on a live button
SetTypeOps == { "set_type", "set_property_action_type", "type_changed" }

\* C1 as stated: after panel_action_button_set_type (button, k), k a kind other
\* than None and not the button's kind, the button has kind k, the icon and
\* the tooltip of the table's entry k, and the accessible name is the entry's
\* display label (its text).
C1_AsStated ==
    [][ (op'.name = "set_type" /\ op'.arg \in ValidTypes /\ button.type # op'.arg)
          => /\ button'.type = op'.arg
             /\ button'.icon_name = actions[op'.arg].icon_name
             /\ button'.tooltip = actions[op'.arg].tooltip
             /\ button'.atk_name = actions[op'.arg].text ]_vars

\* C1 amended: after panel_action_button_set_type (button, k), k a kind other
\* than None and not the button's kind, the button has kind k, the icon and
\* the tooltip of the table's entry k, and the accessible name is the entry's
\* tooltip (not its display label).
C1_SetTypeAppliesTable ==
    [][ (op'.name = "set_type" /\ op'.arg \in ValidTypes /\ button.type # op'.arg)
          => /\ button'.type = op'.arg
             /\ button'.icon_name = actions[op'.arg].icon_name
             /\ button'.tooltip = actions[op'.arg].tooltip
             /\ button'.atk_name = actions[op'.arg].tooltip ]_vars

\* a Logout button has just been re-bound to Lock by set_type
C1_Witness ==
    /\ op.name = "set_type" /\ op.arg = PANEL_ACTION_LOCK
    /\ button.type = PANEL_ACTION_LOCK
    /\ button.tooltip = "Protect your computer from unauthorized use"
    /\ button.atk_name = "Protect your computer from unauthorized use"
    /\ button.icon_name = "PANEL_ICON_LOCKSCREEN"
    /\ Len(trace) >= 3

\* C2: panel_action_button_set_type with the button's kind or with None leaves
\* every field of the button as it was and calls nothing: no is_disabled hook,
\* no icon, tooltip, accessible-name or activatable setter.
C2_SetTypeSameOrNoneIsNoOp ==
    [][ (op'.name = "set_type"
           /\ (op'.arg = button.type \/ op'.arg = PANEL_ACTION_NONE))
          => (button' = button /\ trace' = <<>>) ]_vars

\* set_type was called on a bound button with the kind it has
C2_Witness ==
    /\ op.name = "set_type" /\ op.arg = button.type
    /\ button.type = PANEL_ACTION_RUN
    /\ button.phase = "live"
    /\ trace = <<>>

\* C3: while the button lives, a kind other than None is never replaced by
\* None, whatever value a set_type call, a property write or a settings
\* notification carries and whatever else happens to the button; and the kind
\* changes only in the steps that run panel_action_button_set_type.
C3_BoundStaysBound ==
    [][ /\ (button.phase = "live" /\ button.type # PANEL_ACTION_NONE
                /\ button'.phase = "live")
             => button'.type # PANEL_ACTION_NONE
        /\ (button.phase = "live" /\ button'.phase = "live"
                /\ button'.type # button.type)
             => op'.name \in SetTypeOps
        /\ (button'.phase # "live" /\ button.phase = "live")
             => op'.name = "finalize" ]_vars

\* a settings notification carrying None reached a bound button, which kept
\* its kind
C3_Witness ==
    /\ op.name = "type_changed" /\ op.arg = PANEL_ACTION_NONE
    /\ button.phase = "live"
    /\ button.type = PANEL_ACTION_SHUTDOWN

\* C4 as stated: a button that panel_action_button_load leaves registered with
\* the panel has a kind other than None.
C4_AsStated ==
    (op.name = "load_from_gsettings" /\ button.phase = "live" /\ button.info # NULL)
        => button.type # PANEL_ACTION_NONE

\* C5 as stated, in the case it names: the activatable state follows
\* panel_action_get_is_disabled for the button's kind after a set_type that
\* changes the kind, so a button whose kind was disabled (and which was
\* therefore not activatable) is activatable once set_type has re-bound it to
\* Search or ConnectServer, which are never disabled.
C5_AsStated ==
    [][ ( /\ op'.name = "set_type"
          /\ button.phase = "live"
          /\ panel_action_get_is_disabled(button.type, env)
          /\ ~ button.activatable
          /\ button'.type # button.type
          /\ button'.type \in {PANEL_ACTION_SEARCH, PANEL_ACTION_CONNECT_SERVER} )
          => button'.activatable = ~ panel_action_get_is_disabled(button'.type, env') ]_vars

\* C8: a click on a bound button hides the toplevel first when drawers
\* auto-close and the toplevel is attached, hides nothing otherwise, and then
\* calls the invoke hook of the button's kind once and nothing else; a click
\* on a button of kind None hides nothing and calls no hook.
C8_ClickHidesThenInvokes ==
    op.name = "clicked" =>
        IF button.type # PANEL_ACTION_NONE
        THEN trace = (IF op.f1 /\ op.f2
                      THEN << <<"panel_toplevel_hide", "toplevel">> >>
                      ELSE << >>)
                     \o << <<"invoke", actions[button.type].invoke>> >>
        ELSE \A i \in 1 .. Len(trace) :
                 trace[i][1] \notin {"panel_toplevel_hide", "invoke"}

\* a Shutdown button in an attached drawer was clicked with auto-close on
C8_Witness ==
    /\ op.name = "clicked" /\ op.f1 /\ op.f2
    /\ button.type = PANEL_ACTION_SHUTDOWN
    /\ trace = << <<"panel_toplevel_hide", "toplevel">>,
                  <<"invoke", "panel_action_shutdown">> >>

-----------------------------------------------------------------------------
(* Properties of the enablement hooks: checked under SpecPolicy *)

\* C6: panel_action_get_is_disabled answers, for Lock, "lock is unavailable or
\* lockdown disables the lock screen"; for Logout, Run and ForceQuit the
\* lockdown flag of log-out, command line and force-quit; for Search and
\* ConnectServer always FALSE.
C6_IsDisabledTable ==
    query.called =>
        CASE query.type = PANEL_ACTION_LOCK ->
                 query.ret = (~ env.lock_available \/ env.disable_lock_screen)
          [] query.type = PANEL_ACTION_LOGOUT -> query.ret = env.disable_log_out
          [] query.type = PANEL_ACTION_RUN -> query.ret = env.disable_command_line
          [] query.type = PANEL_ACTION_FORCE_QUIT -> query.ret = env.disable_force_quit
          [] query.type = PANEL_ACTION_SEARCH -> query.ret = FALSE
          [] query.type = PANEL_ACTION_CONNECT_SERVER -> query.ret = FALSE
          [] OTHER -> TRUE

\* Lock was queried with the capability present and the lock screen locked down
C6_Witness ==
    /\ query.called /\ query.type = PANEL_ACTION_LOCK /\ query.ret
    /\ env.lock_available /\ env.disable_lock_screen

\* C7 as stated: Shutdown is disabled exactly when lockdown forbids log-out and
\* the display offers no in-process shutdown dialog and the session manager
\* reports shutdown unavailable.
C7_AsStated ==
    (query.called /\ query.type = PANEL_ACTION_SHUTDOWN)
        => query.ret = (env.disable_log_out /\ ~ env.wayland_display
                           /\ ~ env.shutdown_available)

\* C7 amended: Shutdown is disabled exactly when lockdown forbids log-out, or
\* the display offers no in-process shutdown dialog and the session manager
\* reports shutdown unavailable.
C7_ShutdownDisabled ==
    (query.called /\ query.type = PANEL_ACTION_SHUTDOWN)
        => query.ret = (env.disable_log_out
                           \/ (~ env.wayland_display /\ ~ env.shutdown_available))

\* Shutdown was queried on a Wayland display with log-out locked down
C7_Witness ==
    /\ query.called /\ query.type = PANEL_ACTION_SHUTDOWN /\ query.ret
    /\ env.disable_log_out /\ env.wayland_display /\ env.shutdown_available

-----------------------------------------------------------------------------
(* Properties of the drag path: checked under SpecDrag *)

\* a number below 1000 in decimal, digit by digit
Decimal(n) ==
    IF n < 10 THEN << Digits[n + 1] >>
    ELSE IF n < 100 THEN << Digits[(n \div 10) + 1], Digits[(n % 10) + 1] >>
    ELSE << Digits[(n \div 100) + 1], Digits[((n \div 10) % 10) + 1], Digits[(n % 10) + 1] >>

\* the step in which the token of the drag in progress is dropped
Dropped == ~ drop.called /\ drop'.called

\* the profile gained exactly one object of kind type at the drop position,
\* its action-type key written once and its id put on the object id list
CreatedOne(type) ==
    /\ Len(profile'.objects) = Len(profile.objects) + 1
    /\ SubSeq(profile'.objects, 1, Len(profile.objects)) = profile.objects
    /\ LET o == profile'.objects[Len(profile'.objects)]
       IN  /\ o.action_type = type
           /\ o.position = drop'.position
           /\ profile'.object_id_list = Append(profile.object_id_list, o.id)

\* C9: the token of a button of kind k that is applet i reads
\* "ACTION:<name of k>:<i in decimal>", and dropping it creates one button of
\* kind k at the drop position, writes i to *old_applet_idx and returns TRUE.
C9_DragTokenRoundTrip ==
    [][ /\ (drag'.source = "drag_data_get")
            => drag'.data = ACTION_PREFIX \o panel_action_type[drag'.type] \o <<":">>
                              \o Decimal(drag'.idx)
        /\ (drag.source = "drag_data_get" /\ Dropped)
            => /\ drop'.retval = TRUE
               /\ drop'.idx_written /\ drop'.old_applet_idx = drag.idx
               /\ CreatedOne(drag.type) ]_vars

\* the token of the Force Quit button that is applet 10 was dropped
C9_Witness ==
    /\ drag.source = "drag_data_get" /\ drag.type = PANEL_ACTION_FORCE_QUIT
    /\ drag.idx = 10
    /\ drop.called /\ drop.retval /\ drop.old_applet_idx = 10
    /\ Len(profile.objects) = 1
    /\ profile.objects[1].action_type = PANEL_ACTION_FORCE_QUIT

\* C10: the table's drag id of kind k reads "ACTION:<name of k>:NEW", and
\* dropping it creates one button of kind k, returns FALSE and does not write
\* *old_applet_idx.
C10_DropOfNewToken ==
    [][ /\ (drag'.source = "drag_id")
            => drag'.data = ACTION_PREFIX \o panel_action_type[drag'.type]
                              \o <<":","N","E","W">>
        /\ (drag.source = "drag_id" /\ Dropped)
            => /\ drop'.retval = FALSE
               /\ ~ drop'.idx_written
               /\ CreatedOne(drag.type) ]_vars

\* the drag id of Connect to Server was dropped
C10_Witness ==
    /\ drag.source = "drag_id" /\ drag.type = PANEL_ACTION_CONNECT_SERVER
    /\ drop.called /\ ~ drop.retval /\ ~ drop.idx_written
    /\ Len(profile.objects) = 1
    /\ profile.objects[1].action_type = PANEL_ACTION_CONNECT_SERVER
    /\ profile.object_id_list = << 1 >>

\* the token as the drop handler's caller sees it: its fields between colons,
\* and the kind whose name the second field spells when letter case is ignored
FieldsOf(token) ==
    LET colons == { i \in 1 .. Len(token) : token[i] = ":" }
        ends == colons \cup { Len(token) + 1 }
        StartOf(e) == IF \E c \in colons : c < e
                      THEN (CHOOSE c \in colons : c < e /\ \A d \in colons : d < e => d <= c) + 1
                      ELSE 1
        Nth(n) == CHOOSE e \in ends : Cardinality({ d \in ends : d < e }) = n - 1
    IN  [ n \in 1 .. Cardinality(ends) |-> SubSeq(token, StartOf(Nth(n)), Nth(n) - 1) ]

LowerCased(str) == [ i \in 1 .. Len(str) |-> g_ascii_tolower(str[i]) ]

HasActionPrefix(token) ==
    Len(token) >= 7 /\ SubSeq(token, 1, 7) = <<"A","C","T","I","O","N",":">>

NamesKind(field, k) == LowerCased(field) = panel_action_type[k]

Malformed(token) ==
    \/ ~ HasActionPrefix(token)
    \/ Len(FieldsOf(token)) < 3
    \/ \A k \in 0 .. (PANEL_ACTION_LAST - 1) : ~ NamesKind(FieldsOf(token)[2], k)

\* the drop left the profile alone and wrote nothing through old_applet_idx
Rejected ==
    /\ drop'.retval = FALSE
    /\ ~ drop'.idx_written
    /\ profile' = profile
    /\ \A i \in 1 .. Len(trace') :
           trace'[i][1] \notin { "panel_profile_prepare_object", "g_settings_set_enum",
                                 "panel_profile_add_to_list" }

\* C11: dropping a token that does not start with "ACTION:", or has fewer than
\* three fields, or whose second field is no kind name, returns FALSE, creates
\* no button (no settings key written, no id added to the profile's list) and
\* does not write *old_applet_idx.
C11_MalformedRejected ==
    [][ (Dropped /\ Malformed(drag.data)) => Rejected ]_vars

\* "ACTION:bogus:NEW" was dropped and nothing was created
C11_Witness ==
    /\ drag.data = <<"A","C","T","I","O","N",":","b","o","g","u","s",":","N","E","W">>
    /\ drop.called /\ ~ drop.retval /\ ~ drop.idx_written
    /\ profile = NoProfile

\* C12: a well-formed token whose second field spells the name of a kind k
\* other than None in any letter case creates a button of kind k, and one
\* whose second field spells "none" in any letter case creates nothing and
\* returns FALSE.
C12_KindNameAnyCase ==
    [][ (Dropped /\ HasActionPrefix(drag.data) /\ Len(FieldsOf(drag.data)) >= 3)
            => /\ \A k \in ValidTypes :
                     NamesKind(FieldsOf(drag.data)[2], k) => CreatedOne(k)
               /\ NamesKind(FieldsOf(drag.data)[2], PANEL_ACTION_NONE)
                     => (drop'.retval = FALSE /\ profile' = profile) ]_vars

\* "ACTION:Force-Quit:7" was dropped and made a Force Quit button
C12_Witness ==
    /\ drag.data = <<"A","C","T","I","O","N",":","F","o","r","c","e","-","Q","u","i","t",":","7">>
    /\ drop.called /\ drop.retval /\ drop.old_applet_idx = 7
    /\ Len(profile.objects) = 1
    /\ profile.objects[1].action_type = PANEL_ACTION_FORCE_QUIT

-----------------------------------------------------------------------------
(* Teardown and registration failure: checked under Spec *)

\* how often a handler made a call, and where in its calls the first one is
Calls(tr, call) == Cardinality({ i \in 1 .. Len(tr) : tr[i][1] = call })

FirstCall(tr, call) == CHOOSE i \in 1 .. Len(tr) :
                           tr[i][1] = call /\ \A j \in 1 .. (i - 1) : tr[j][1] # call

\* the step destroys a loaded button
DestroysLoaded == button.phase = "live" /\ button'.phase = "finalized"

\* the step is a load that the panel refused to register
LoadRefused ==
    /\ button.phase # "live"
    /\ op'.name = "load_from_gsettings" /\ ~ op'.f1
    /\ <<button, op, trace>> # <<button', op', trace'>>

\* the subscriptions the destroyed instance had made before it was destroyed
SubscribedSettings ==
    IF DestroysLoaded THEN button.type_changed_handlers
    ELSE Cardinality({ i \in 1 .. Len(trace') :
                          trace'[i] = <<"g_signal_connect", "changed::action-type">> })

SubscribedLockdown ==
    IF DestroysLoaded THEN button.lockdown_notify
    ELSE Calls(trace', "panel_lockdown_notify_add")

DisconnectsBeforeRelease ==
    Calls(trace', "g_clear_object") > 0
        => /\ Calls(trace', "g_signal_handlers_disconnect_by_func") > 0
           /\ FirstCall(trace', "g_signal_handlers_disconnect_by_func")
                  < FirstCall(trace', "g_clear_object")

\* C13 as stated: on both destruction paths every listener the button had
\* subscribed is unsubscribed exactly once, the settings listener before the
\* handle is released, nothing stays registered, and no unsubscribe is issued
\* for a subscription that was never made.
C13_AsStated ==
    [][ (DestroysLoaded \/ LoadRefused)
            => /\ Calls(trace', "g_signal_handlers_disconnect_by_func") = SubscribedSettings
               /\ Calls(trace', "panel_lockdown_notify_remove") = SubscribedLockdown
               /\ DisconnectsBeforeRelease
               /\ button'.type_changed_handlers = 0 /\ button'.lockdown_notify = 0 ]_vars

\* C13 amended: destroying a loaded button disconnects its settings listener
\* once, before the handle is released, and removes its lockdown notifier
\* once; destroying a button the panel refused issues no settings disconnect
\* and one panel_lockdown_notify_remove for a notifier that was never added;
\* on both paths nothing stays registered afterwards.
C13_TeardownUnsubscribes ==
    [][ /\ DestroysLoaded
            => /\ button.type_changed_handlers = 1 /\ button.lockdown_notify = 1
               /\ Calls(trace', "g_signal_handlers_disconnect_by_func") = 1
               /\ Calls(trace', "g_clear_object") = 1
               /\ Calls(trace', "panel_lockdown_notify_remove") = 1
               /\ DisconnectsBeforeRelease
               /\ button'.type_changed_handlers = 0 /\ button'.lockdown_notify = 0
        /\ LoadRefused
            => /\ Calls(trace', "panel_lockdown_notify_add") = 0
               /\ Calls(trace', "g_signal_handlers_disconnect_by_func") = 0
               /\ Calls(trace', "g_clear_object") = 0
               /\ Calls(trace', "panel_lockdown_notify_remove") = 1
               /\ button'.type_changed_handlers = 0 /\ button'.lockdown_notify = 0 ]_vars

\* a loaded button was destroyed
C13_Witness ==
    /\ op.name = "finalize" /\ button.phase = "finalized"
    /\ Calls(trace, "g_signal_handlers_disconnect_by_func") = 1
    /\ Calls(trace, "panel_lockdown_notify_remove") = 1
    /\ button.type_changed_handlers = 0 /\ button.lockdown_notify = 0

\* C14: when mate_panel_applet_register returns no AppletInfo, the load
\* destroys the button at once and leaves nothing behind: no "help" or
\* per-kind menu callback, no settings object or "changed" handler, no
\* lockdown notifier and no "style-updated" handler.
C14_RefusedLoadLeavesNothing ==
    (op.name = "load_from_gsettings" /\ ~ op.f1)
        => /\ button.phase = "finalized"
           /\ \E i \in 1 .. (Len(trace) - 1) :
                 /\ trace[i] = <<"mate_panel_applet_register", "FALSE">>
                 /\ trace[i + 1] = <<"gtk_widget_destroy", "button">>
           /\ \A call \in { "mate_panel_applet_add_callback", "g_settings_new_with_path",
                             "g_signal_connect", "panel_lockdown_notify_add" } :
                 Calls(trace, call) = 0
           /\ button.callbacks = {}
           /\ button.settings = NULL /\ button.type_changed_handlers = 0
           /\ button.lockdown_notify = 0
           /\ ~ button.style_updated_handler

\* the panel refused a Lock Screen button, the kind with menu callbacks
C14_Witness ==
    /\ op.name = "load_from_gsettings" /\ op.arg = PANEL_ACTION_LOCK /\ ~ op.f1
    /\ button.phase = "finalized"
    /\ Calls(trace, "gtk_widget_destroy") = 1

-----------------------------------------------------------------------------
(* The icon sizes registered at startup: SpecIcons *)

IconsUnchanged ==
    UNCHANGED <<env, button, op, trace, query, drag, profile, drop, invoke_vars>>

\* main () runs the registration once, before any consumer asks for a size
InitStockIcons ==
    /\ panel_add_to_icon_size = 0
    /\ LET r == panel_init_stock_icons_and_items(menubar_settings, icon_sizes)
       IN  /\ panel_menu_icon_size' = r.panel_menu_icon_size
           /\ panel_menu_bar_icon_size' = r.panel_menu_bar_icon_size
           /\ panel_add_to_icon_size' = r.panel_add_to_icon_size
           /\ icon_sizes' = r.sizes
    /\ UNCHANGED menubar_settings
    /\ IconsUnchanged

\* the user changes a key of the menu bar schema; nothing in the file listens
MenuBarSettingsChanged ==
    /\ \E key \in { "item_icon_size", "icon_size" }, value \in IconSizeValues :
          menubar_settings' = [ menubar_settings EXCEPT ![key] = value ]
    /\ UNCHANGED <<panel_menu_icon_size, panel_menu_bar_icon_size,
                   panel_add_to_icon_size, icon_sizes>>
    /\ IconsUnchanged

NextIcons ==
    \/ InitStockIcons
    \/ MenuBarSettingsChanged

InitIconsSpec ==
    /\ env \in { e \in SessionEnv :
                    ~ e.disable_lock_screen /\ ~ e.disable_log_out
                    /\ ~ e.disable_command_line /\ ~ e.disable_force_quit }
    /\ InitButton
    /\ query = NoQuery
    /\ InitDrag
    /\ InitInvoke
    /\ panel_menu_icon_size = 0
    /\ panel_menu_bar_icon_size = 0
    /\ panel_add_to_icon_size = 0
    /\ icon_sizes = GtkBuiltinIconSizes
    /\ menubar_settings \in [ item_icon_size : IconSizeValues, icon_size : IconSizeValues ]

SpecIcons == InitIconsSpec /\ [][NextIcons]_vars

\* the registration has not run: GTK knows its own sizes only
NotRegistered == icon_sizes = GtkBuiltinIconSizes

\* the size GTK holds for a token
SizeOf(sizes, token) == sizes[token]

\* C15: before the registration all three accessors return 0; the
\* registration gives item-icon-size and icon-size the default size under
\* "panel-menu" / "panel-foobar" when the stored value is <= 0 and the stored
\* value as width and height under "__panel-menu" / "__panel-foobar" when it
\* is > 0, gives add-to the fixed size under "panel-add-to", and leaves each
\* accessor returning the token of its own size, whatever the keys do later.
C15_IconSizesRegistered ==
    [][ /\ NotRegistered
            => /\ panel_menu_icon_get_size = 0
               /\ panel_menu_bar_icon_get_size = 0
               /\ panel_add_to_icon_get_size = 0
        /\ (NotRegistered /\ ~ NotRegistered')
            => /\ Len(icon_sizes') = Len(icon_sizes) + 3
               /\ { panel_menu_icon_get_size', panel_menu_bar_icon_get_size',
                     panel_add_to_icon_get_size' }
                    = (Len(icon_sizes) + 1) .. (Len(icon_sizes) + 3)
               /\ LET menu == SizeOf(icon_sizes', panel_menu_icon_get_size')
                      bar == SizeOf(icon_sizes', panel_menu_bar_icon_get_size')
                      add == SizeOf(icon_sizes', panel_add_to_icon_get_size')
                  IN  /\ IF menubar_settings.item_icon_size <= 0
                         THEN menu = [ name |-> "panel-menu",
                                       width |-> PANEL_DEFAULT_MENU_ICON_SIZE,
                                       height |-> PANEL_DEFAULT_MENU_ICON_SIZE ]
                         ELSE menu = [ name |-> "__panel-menu",
                                       width |-> menubar_settings.item_icon_size,
                                       height |-> menubar_settings.item_icon_size ]
                      /\ IF menubar_settings.icon_size <= 0
                         THEN bar = [ name |-> "panel-foobar",
                                      width |-> PANEL_DEFAULT_MENU_BAR_ICON_SIZE,
                                      height |-> PANEL_DEFAULT_MENU_BAR_ICON_SIZE ]
                         ELSE bar = [ name |-> "__panel-foobar",
                                      width |-> menubar_settings.icon_size,
                                      height |-> menubar_settings.icon_size ]
                      /\ add = [ name |-> "panel-add-to",
                                 width |-> PANEL_ADD_TO_DEFAULT_ICON_SIZE,
                                 height |-> PANEL_ADD_TO_DEFAULT_ICON_SIZE ]
        /\ ~ NotRegistered
            => UNCHANGED <<panel_menu_icon_size, panel_menu_bar_icon_size,
                           panel_add_to_icon_size, icon_sizes>> ]_vars

\* registered with item-icon-size 0 and icon-size 48
C15_Witness ==
    /\ ~ NotRegistered
    /\ SizeOf(icon_sizes, panel_menu_icon_get_size).name = "panel-menu"
    /\ SizeOf(icon_sizes, panel_menu_bar_icon_get_size)
          = [ name |-> "__panel-foobar", width |-> 48, height |-> 48 ]
    /\ SizeOf(icon_sizes, panel_add_to_icon_get_size).name = "panel-add-to"

-----------------------------------------------------------------------------
(* Settings notifications and menu callbacks: checked under Spec *)

\* C16: a change notification for the action-type key of a loaded button is
\* applied through set_type, so that afterwards the button has the stored kind
\* whenever that is a kind other than None; a change of any other key of the
\* settings object runs no handler and leaves the button as it was.
C16_OnlyActionTypeKeyRebinds ==
    [][ /\ (op'.name = "type_changed" /\ op'.arg \in ValidTypes)
            => /\ button'.type = op'.arg
               /\ [ b |-> button', tr |-> trace' ]
                     = panel_action_button_set_type(Running, op'.arg, env)
        /\ (op'.name = "other_key_changed")
            => (button' = button /\ trace' = << >>) ]_vars

\* a Lock Screen button's key was changed to search elsewhere, and the button
\* is a Search button now
C16_Witness ==
    /\ op.name = "type_changed" /\ op.arg = PANEL_ACTION_SEARCH
    /\ button.type = PANEL_ACTION_SEARCH
    /\ button.callbacks = { "help", "activate", "lock", "prefs" }
    /\ Len(trace) > 0

\* C18: on a button of a kind other than None, "help" opens the help viewer on
\* the topic the table gives for the button's kind (nothing when the table
\* gives none) and never reaches the kind's invoke_menu hook; any other name
\* is handed to the kind's invoke_menu hook, which only Lock Screen has, and
\* does nothing for the other kinds.
C18_InvokeMenuDispatch ==
    (op.name = "invoke_menu" /\ button.type # PANEL_ACTION_NONE
                             /\ CallbackNames[op.arg] # NULL)
        => LET name == CallbackNames[op.arg]
               topic == actions[button.type].help_index
           IN  /\ name = "help"
                     => trace = IF topic # NULL
                                THEN << <<"panel_show_help", topic>> >>
                                ELSE << >>
               /\ name # "help"
                     => trace = IF button.type = PANEL_ACTION_LOCK
                                THEN << <<"invoke_menu", "panel_action_lock_invoke_menu">>,
                                        <<"panel_lock_screen_action", name>> >>
                                ELSE << >>

\* "help" was picked on a Lock Screen button, the kind with an invoke_menu hook
C18_Witness ==
    /\ op.name = "invoke_menu" /\ CallbackNames[op.arg] = "help"
    /\ button.type = PANEL_ACTION_LOCK
    /\ trace = << <<"panel_show_help", "gospanel-21">> >>

-----------------------------------------------------------------------------
(* What the invoke hooks do: SpecInvoke *)

InvokeUnchanged ==
    UNCHANGED <<env, button, op, query, drag, profile, drop, stock_vars>>

Invoked(hook, response_id, status1, status2, spawn_error) ==
    invoked' = [ hook |-> hook, response_id |-> response_id, status1 |-> status1,
                 status2 |-> status2, spawn_error |-> spawn_error ]

\* programs are installed or removed and the session settings edited, between
\* one activation and the next
HostChanges ==
    /\ \E caja \in BOOLEAN, nautilus \in BOOLEAN, schema \in BOOLEAN, prompt \in BOOLEAN :
          host' = [ host EXCEPT !.caja_in_path = caja, !.nautilus_in_path = nautilus,
                                !.session_schema_exists = schema,
                                !.logout_prompt = prompt ]
    /\ invoked' = NoInvoked
    /\ trace' = << >>
    /\ InvokeUnchanged

Logout ==
    /\ Invoked("panel_action_logout", NULL, 0, 0, FALSE)
    /\ trace' = panel_action_logout(host)
    /\ UNCHANGED host
    /\ InvokeUnchanged

ConnectServer ==
    /\ \E spawn_error \in BOOLEAN :
          /\ Invoked("panel_action_connect_server", NULL, 0, 0, spawn_error)
          /\ trace' = panel_action_connect_server(host, spawn_error)
    /\ UNCHANGED host
    /\ InvokeUnchanged

Shutdown ==
    /\ host.shutdown_dialogs < MaxDialogs
    /\ LET r == panel_action_shutdown(env)
       IN  /\ trace' = r.tr
           /\ host' = [ host EXCEPT !.shutdown_dialogs = IF r.dialog THEN @ + 1 ELSE @ ]
    /\ Invoked("panel_action_shutdown", NULL, 0, 0, FALSE)
    /\ InvokeUnchanged

\* the user answers a dialog; closing its window is answered by GTK itself
ShutdownResponse ==
    /\ host.shutdown_dialogs > 0
    /\ \E response_id \in ResponseIds, status1 \in SystemStatuses,
          status2 \in SystemStatuses :
          /\ Invoked("wayland_shutdown_response_cb", response_id, status1, status2, FALSE)
          /\ trace' = wayland_shutdown_response_cb(response_id, status1, status2)
    /\ host' = [ host EXCEPT !.shutdown_dialogs = @ - 1 ]
    /\ InvokeUnchanged

NextInvoke ==
    \/ HostChanges
    \/ Logout
    \/ ConnectServer
    \/ Shutdown
    \/ ShutdownResponse

InitInvokeSpec ==
    /\ env \in { e \in Env :
                    /\ e.lock_available /\ e.shutdown_available
                    /\ ~ e.disable_lock_screen /\ ~ e.disable_log_out
                    /\ ~ e.disable_command_line /\ ~ e.disable_force_quit }
    /\ InitButton
    /\ query = NoQuery
    /\ InitDrag
    /\ host \in [ caja_in_path : BOOLEAN, nautilus_in_path : BOOLEAN,
                   session_schema_exists : BOOLEAN, logout_prompt : BOOLEAN,
                   shutdown_dialogs : { 0 } ]
    /\ invoked = NoInvoked
    /\ InitStock

SpecInvoke == InitInvokeSpec /\ [][NextInvoke]_vars

-----------------------------------------------------------------------------
(* Properties of the invoke hooks: checked under SpecInvoke *)

\* how often the response ran command through system ()
Ran_system(command) ==
    Cardinality({ i \in 1 .. Len(trace) : trace[i] = <<"system", command>> })

\* C17 as stated: the response runs the request's primary command once and the
\* secondary command exactly when the primary one failed; Cancel runs no
\* command; no command runs more than once.
C17_AsStated ==
    (invoked.hook = "wayland_shutdown_response_cb")
        => /\ invoked.response_id = "GTK_RESPONSE_OK"
                 => /\ Ran_system("shutdown now") = 1
                    /\ Ran_system("systemctl poweroff -i")
                          = IF invoked.status1 # 0 THEN 1 ELSE 0
           /\ invoked.response_id = "GTK_RESPONSE_ACCEPT"
                 => /\ Ran_system("reboot now") = 1
                    /\ Ran_system("systemctl reboot -i")
                          = IF invoked.status1 # 0 THEN 1 ELSE 0
           /\ invoked.response_id = "GTK_RESPONSE_REJECT"
                 => Ran_system("systemctl hibernate -i") = 1
           /\ invoked.response_id = "GTK_RESPONSE_APPLY"
                 => Ran_system("systemctl suspend -i") = 1
           /\ invoked.response_id = "GTK_RESPONSE_CANCEL"
                 => Calls(trace, "system") = 0
           /\ \A i, j \in 1 .. Len(trace) :
                 (trace[i][1] = "system" /\ trace[i] = trace[j]) => i = j

\* the launches of a helper among the calls of the hook
Launches ==
    { i \in 1 .. Len(trace) : trace[i][1] = "mate_gdk_spawn_command_line_on_screen" }

\* C19: an activation of Connect to Server launches one helper, caja's if it
\* is in the path, else nautilus's if it is in the path, else nemo's without
\* a look at the path; an error dialog is shown exactly when that launch
\* reports an error, and nothing is launched after it.
C19_OneHelperByPreference ==
    (invoked.hook = "panel_action_connect_server")
        => /\ Cardinality(Launches) = 1
           /\ \A i \in Launches :
                 trace[i][2] = IF host.caja_in_path THEN "caja-connect-server"
                               ELSE IF host.nautilus_in_path
                                    THEN "nautilus-connect-server"
                               ELSE "nemo-connect-server"
           /\ \A i \in 1 .. Len(trace) :
                 trace[i] # <<"panel_is_program_in_path", "nemo-connect-server">>
           /\ (Calls(trace, "panel_error_dialog") = 1) = invoked.spawn_error
           /\ Calls(trace, "panel_error_dialog") <= 1

\* neither caja nor nautilus is installed, nemo's helper was launched and the
\* launch failed
C19_Witness ==
    /\ invoked.hook = "panel_action_connect_server" /\ invoked.spawn_error
    /\ ~ host.caja_in_path /\ ~ host.nautilus_in_path
    /\ trace[Len(trace) - 1]
          = <<"mate_gdk_spawn_command_line_on_screen", "nemo-connect-server">>
    /\ trace[Len(trace)] = <<"panel_error_dialog", "cannot_connect_server">>

\* the logout requests among the calls of the hook
LogoutRequests ==
    { i \in 1 .. Len(trace) : trace[i][1] = "panel_session_manager_request_logout" }

\* C20: an activation of Log Out makes one logout request, without
\* confirmation exactly when the session schema exists and its logout-prompt
\* key is false, and in normal mode otherwise.
C20_OneLogoutRequest ==
    (invoked.hook = "panel_action_logout")
        => /\ Cardinality(LogoutRequests) = 1
           /\ \A i \in LogoutRequests :
                 trace[i][2] = IF host.session_schema_exists /\ ~ host.logout_prompt
                               THEN "PANEL_SESSION_MANAGER_LOGOUT_MODE_NO_CONFIRMATION"
                               ELSE "PANEL_SESSION_MANAGER_LOGOUT_MODE_NORMAL"

\* Log Out ran where no session schema is installed and asked for confirmation
C20_Witness ==
    /\ invoked.hook = "panel_action_logout"
    /\ ~ host.session_schema_exists /\ ~ host.logout_prompt
    /\ trace = << <<"panel_session_manager_request_logout",
                    "PANEL_SESSION_MANAGER_LOGOUT_MODE_NORMAL">> >>

-----------------------------------------------------------------------------
(* The drag-and-drop flag and the menu callbacks: checked under Spec *)

\* the steps that run panel_action_button_set_dnd_enabled; op.f1 is the value
\* asked for
DndOps == { "set_dnd_enabled", "set_property_dnd_enabled" }

DndOnlyWhenBound(b) == (b.phase = "live" /\ b.dnd_enabled) => b.type # PANEL_ACTION_NONE

\* C21: a live button with the drag-and-drop flag on has a kind; the flag of a
\* new button is off; set_dnd_enabled on a button without a kind changes
\* nothing and notifies nobody, and on a bound button it leaves the flag at
\* the value asked for and emits the "dnd-enabled" notification exactly when
\* that value differs from the flag.
C21_DndFlagNeedsKind ==
    [][ /\ DndOnlyWhenBound(button) /\ DndOnlyWhenBound(button')
        /\ (button.phase # "live" /\ button'.phase = "live") => ~ button'.dnd_enabled
        /\ (op'.name \in DndOps /\ button.type = PANEL_ACTION_NONE)
            => (button' = button /\ trace' = << >>)
        /\ (op'.name \in DndOps /\ button.type # PANEL_ACTION_NONE)
            => /\ button'.dnd_enabled = op'.f1
               /\ Calls(trace', "g_object_notify")
                     = IF op'.f1 # button.dnd_enabled THEN 1 ELSE 0
               /\ (op'.f1 = button.dnd_enabled) => (button' = button /\ trace' = << >>) ]_vars

\* drag and drop was switched on for a Run button
C21_Witness ==
    /\ op.name = "set_dnd_enabled" /\ op.f1
    /\ button.phase = "live" /\ button.type = PANEL_ACTION_RUN /\ button.dnd_enabled
    /\ trace[Len(trace)] = <<"g_object_notify", "dnd-enabled">>

\* the callbacks panel_action_lock_setup_menu registers
LockCallbacks == { "activate", "lock", "prefs" }

\* C22: the menu callbacks of a button are those of the kind it was loaded
\* with and no re-bind changes them: a button loaded as another kind and
\* re-bound to Lock Screen has none of "activate", "lock" and "prefs", and a
\* button loaded as Lock Screen and re-bound keeps the three, which then do
\* nothing when invoked.
C22_MenuCallbacksAreThoseOfTheLoad ==
    [][ /\ (button.phase # "live" /\ button'.phase = "live")
            => button'.callbacks = { "help" } \cup IF button'.type = PANEL_ACTION_LOCK
                                                  THEN LockCallbacks ELSE { }
        /\ (button.phase = "live" /\ button'.phase = "live")
            => button'.callbacks = button.callbacks
        /\ (op'.name = "invoke_menu" /\ CallbackNames[op'.arg] \in LockCallbacks
                /\ button'.type \notin { PANEL_ACTION_NONE, PANEL_ACTION_LOCK })
            => (trace' = << >> /\ button' = button) ]_vars

\* a button loaded as Lock Screen is a Search button now, still has "lock" in
\* its menu, and picking it did nothing
C22_Witness ==
    /\ op.name = "invoke_menu" /\ CallbackNames[op.arg] = "lock"
    /\ button.phase = "live" /\ button.type = PANEL_ACTION_SEARCH
    /\ LockCallbacks \subseteq button.callbacks
    /\ trace = << >>

-----------------------------------------------------------------------------
(* The third field of a token, and the order of create: checked under SpecDrag *)

\* the field is empty or starts with a letter: no decimal number
NoNumber(field) ==
    field = << >> \/ \E i \in 1 .. 26 : field[1] \in { UpperCase[i], LowerCase[i] }

\* the token has the prefix, three fields or more, and the name of a kind
\* other than None in the second
NamesValidKind(token) ==
    /\ HasActionPrefix(token)
    /\ Len(FieldsOf(token)) >= 3
    /\ \E k \in ValidTypes : NamesKind(FieldsOf(token)[2], k)

\* C23: for a valid kind name, every third field other than "NEW" in exactly
\* these letters is taken for the index of an applet to remove: the button is
\* created, TRUE is returned and *old_applet_idx is written, with 0 when the
\* field is no decimal number ("new", "abc", the empty field) and with the
\* number when it is one, whatever fields follow the third.
C23_ThirdFieldIsAnIndex ==
    [][ (Dropped /\ NamesValidKind(drag.data)
                 /\ FieldsOf(drag.data)[3] # <<"N","E","W">>)
            => /\ drop'.retval = TRUE
               /\ drop'.idx_written
               /\ \E k \in ValidTypes :
                     NamesKind(FieldsOf(drag.data)[2], k) /\ CreatedOne(k)
               /\ NoNumber(FieldsOf(drag.data)[3]) => drop'.old_applet_idx = 0
               /\ \A n \in 0 .. 99 :
                     (FieldsOf(drag.data)[3] = Decimal(n)) => drop'.old_applet_idx = n ]_vars

\* "ACTION:lock:new" was dropped: a Lock Screen button was made and the caller
\* told to remove applet 0
C23_Witness ==
    /\ drag.data = <<"A","C","T","I","O","N",":","l","o","c","k",":","n","e","w">>
    /\ drop.called /\ drop.retval /\ drop.idx_written /\ drop.old_applet_idx = 0
    /\ Len(profile.objects) = 1
    /\ profile.objects[1].action_type = PANEL_ACTION_LOCK

\* the drop made an object
Created == Len(profile'.objects) = Len(profile.objects) + 1

\* C24: create writes the action-type key of the new object once, and before
\* the object's id goes on the profile's list, so that the load the change of
\* the list sets off reads the kind that was asked for; create makes three
\* calls and none of them builds a widget.
C24_KeyWrittenBeforeListed ==
    [][ (Dropped /\ Created)
            => LET o == profile'.objects[Len(profile'.objects)]
               IN  /\ o.writes = 1
                   /\ \E k \in ValidTypes :
                         NamesKind(FieldsOf(drag.data)[2], k) /\ o.action_type = k
                   /\ trace' = << <<"panel_profile_prepare_object", "action">>,
                                  <<"g_settings_set_enum", "action-type">>,
                                  <<"panel_profile_add_to_list", "object-id-list">> >>
                   /\ profile'.loads
                         = Append(profile.loads, [ id |-> o.id, type |-> o.action_type ]) ]_vars

\* a Search button was created at a drop, and the load of the new id read
\* "search" from its key
C24_Witness ==
    /\ drop.called
    /\ Len(profile.objects) = 1
    /\ profile.objects[1].action_type = PANEL_ACTION_SEARCH
    /\ profile.objects[1].writes = 1
    /\ profile.loads = << [ id |-> 1, type |-> PANEL_ACTION_SEARCH ] >>

====
